---- MODULE Spec2Model ----
(***************************************************************************)
(* Name collection for Quint name resolution (NameCollector): the          *)
(* per-module definition table, the registry of module tables, and the     *)
(* handlers for var/const/opdef/typedef/assume/import/export/instance.     *)
(*                                                                         *)
(* A JavaScript Map is modelled as a sequence of entries [key, def] in     *)
(* insertion order, with pairwise distinct keys.  An identifier such as    *)
(* "Q::x" is the sequence <<"Q", "x">>; a bare identifier "x" is <<"x">>.  *)
(* An optional value (T | undefined) is a sequence of length at most one.  *)
(***************************************************************************)
EXTENDS Integers, Sequences, FiniteSets, TLC

\* ------------------------------------------------------------------ bounds
MaxModules == 3
MaxDecls == 3
MaxDepth == 1
MaxChanges == 3
MaxBits == 3
OutOfRange == 2
MaxEvents == 7
MaxStateVars == 2

\* ------------------------------------------------------------ the universe
\* Names of modules and qualifiers.  Every name of Names may be the name of
\* a module and the target of an import, export or instance; of the declared
\* qualifiers one is also a module name and one is not.
Names == {"A", "B", "Q"}
Qualifiers == {"Q", "R"}

\* The definitions a module may declare.  The parser gives every node of
\* the unit its own id: the declaration at position n of the unit that
\* declares def is the node Node(def, n).
ConstX == [id |-> 1, name |-> "x", kind |-> "const", typeAnnotation |-> FALSE]
VarX == [id |-> 0, name |-> "x", kind |-> "var", typeAnnotation |-> FALSE]
DefY == [id |-> 2, name |-> "y", kind |-> "def", typeAnnotation |-> TRUE]
ConstNat == [id |-> 3, name |-> "Nat", kind |-> "const", typeAnnotation |-> FALSE]
AssumeAnon == [id |-> 4, name |-> "_", kind |-> "assume", typeAnnotation |-> FALSE]
TypeNat == [id |-> 5, name |-> "Nat", kind |-> "typedef", typeAnnotation |-> FALSE]

Defs == {ConstX, VarX, DefY, ConstNat, AssumeAnon, TypeNat}

\* The parameters an override of an instance may name.
ParamNames == {"x", "y"}

\* Names a single-name import or export may ask for.
DefNames == {"x", "y"}

Node(def, n) == [def EXCEPT !.id = 100 * n + def.id]

\* Ids of import/export/instance statements and of modules, by position.
DeclId(n) == 10 + n
ModuleId(n) == 20 + n
\* Id of the i-th override expression of the instance statement at position n.
ExprId(n, i) == 30 + 10 * n + i

\* ------------------------------------------------------------- Map helpers
Keys(m) == {m[i].key : i \in 1..Len(m)}

MapHas(m, k) == \E i \in 1..Len(m) : m[i].key = k

MapGet(m, k) == m[CHOOSE i \in 1..Len(m) : m[i].key = k].def

MapSet(m, k, d) ==
    IF MapHas(m, k)
    THEN [i \in 1..Len(m) |-> IF m[i].key = k THEN [key |-> k, def |-> d] ELSE m[i]]
    ELSE Append(m, [key |-> k, def |-> d])

MapDelete(m, k) == SelectSeq(m, LAMBDA e : e.key # k)

RECURSIVE MapFromEntries(_)
MapFromEntries(es) ==
    IF es = <<>> THEN <<>>
    ELSE LET n == Len(es)
         IN MapSet(MapFromEntries(SubSeq(es, 1, n - 1)), es[n].key, es[n].def)

\* ------------------------------------------------------------------- state
VARIABLES
    definitionsByName,    \* the table of the module being collected
    definitionsByModule,  \* the registry: Map from module name to table
    errors,               \* the diagnostics, in order
    currentModuleName,
    definitionDepth,
    aliased,              \* registry key holding the same Map object as definitionsByName
    inModule,             \* the traversal is between enterModule and exitModule
    nmods,                \* modules entered so far
    moduleNames,          \* the names of the modules entered so far
    ndecls,               \* declarations handled so far
    last,                 \* the last handler called and the branch it took
    parsedDataByDocument, \* language server: uri -> version of the parsed data kept
    docsByDocument,       \* language server: uri -> version of the documentation kept
    inferredDataByDocument, \* language server: uri -> version of the inferred data kept
    documents,            \* language server: the open documents
    microtasks,           \* language server: promise callbacks ready to run, in order
    pendingChecks,        \* language server: type/effect checks whose promise is not settled
    sentDiagnostics,      \* language server: the sendDiagnostics calls, in order
    nchanges,             \* language server: content-change events so far
    BITS,                 \* BoundedUInt: the size in bits
    opLhs,                \* BoundedUInt: the left operand of the last operation
    opRhs,                \* BoundedUInt: the right operand of the last operation
    opResult,             \* BoundedUInt: the value the last operation returned
    applied,              \* BoundedUInt: the name of the last operation
    effect,               \* ToEffectVisitor: the field effect, undefined or an effect
    effectStack,          \* ToEffectVisitor: the components of the open arrow effects
    variablesStack,       \* ToEffectVisitor: the variables completed and not yet used
    stateVars,            \* ToEffectVisitor: the state variables read so far
    events                \* the listener events of the walk so far, each with the effect it completed

collectorVars == <<definitionsByName, definitionsByModule, errors, currentModuleName,
                   definitionDepth, aliased, inModule, nmods, moduleNames, ndecls, last>>

serverVars == <<parsedDataByDocument, docsByDocument, inferredDataByDocument, documents,
                microtasks, pendingChecks, sentDiagnostics, nchanges>>

uintVars == <<BITS, opLhs, opRhs, opResult, applied>>

effectVars == <<effect, effectStack, variablesStack, stateVars, events>>

vars == <<collectorVars, serverVars, uintVars, effectVars>>

\* The documents the editor may open.
Uris == {"a.qnt", "b.qnt"}

InitCollector ==
    /\ definitionsByName = <<>>
    /\ definitionsByModule = <<>>
    /\ errors = <<>>
    /\ currentModuleName = ""
    /\ definitionDepth = -1
    /\ aliased = <<>>
    /\ inModule = FALSE
    /\ nmods = 0
    /\ moduleNames = {}
    /\ ndecls = 0
    /\ last = [op |-> "init", case |-> "none"]

InitServer ==
    /\ parsedDataByDocument = [uri \in Uris |-> <<>>]
    /\ docsByDocument = [uri \in Uris |-> <<>>]
    /\ inferredDataByDocument = [uri \in Uris |-> <<>>]
    /\ documents = {}
    /\ microtasks = <<>>
    /\ pendingChecks = {}
    /\ sentDiagnostics = <<>>
    /\ nchanges = 0

\* No operation of BoundedUInt has been called.
InitNoUInt ==
    /\ BITS = 2
    /\ opLhs = [v |-> 0, error |-> ""]
    /\ opRhs = [v |-> 0, error |-> ""]
    /\ opResult = [v |-> 0, error |-> ""]
    /\ applied = "none"

\* The visitor as constructed (lines 6-10); no event has been delivered.
InitVisitor ==
    /\ effect = <<>>
    /\ effectStack = <<>>
    /\ variablesStack = <<>>
    /\ stateVars = <<>>
    /\ events = <<>>

Init == InitCollector /\ InitServer /\ InitNoUInt /\ InitVisitor

\* ------------------------------------------------------------ pure helpers
\* A parsed definition as a LookupDefinition: no depth, namespaces or
\* importedFrom yet.
ToLookup(def) ==
    [id |-> def.id, name |-> def.name, kind |-> def.kind,
     typeAnnotation |-> def.typeAnnotation, depth |-> <<>>,
     namespaces |-> <<>>, importedFrom |-> <<>>]

\* The reserved built-in vocabulary.
builtinNames == {<<"Nat">>}

\* qualifier(decl) of an import or export: the declared qualifier, or the
\* name of the module.
qualifier(decl) ==
    IF decl.qualifiedName # <<>> THEN decl.qualifiedName ELSE <<decl.protoName>>

\* compact([...]): drops the empty strings.
compact(names) == SelectSeq(names, LAMBDA n : n # "")

namespaces(decl, current) ==
    IF decl.kind = "instance"
    THEN compact(<<IF decl.qualifiedName # <<>> THEN decl.qualifiedName[1] ELSE decl.protoName,
                   current>>)
    ELSE qualifier(decl)

addNamespacesToDef(def, nss) == [def EXCEPT !.namespaces = @ \o nss]

\* The entries copyNames derives from one entry of the origin table.
CopyEntry(e, namespace, unhide) ==
    IF namespace = <<>>
    THEN <<e>>
    ELSE <<[key |-> namespace \o e.key, def |-> e.def]>>
         \o (IF unhide /\ Len(e.key) = 1 THEN <<e>> ELSE <<>>)

RECURSIVE CopyEntries(_, _, _)
CopyEntries(table, namespace, unhide) ==
    IF table = <<>> THEN <<>>
    ELSE CopyEntry(Head(table), namespace, unhide)
         \o CopyEntries(Tail(table), namespace, unhide)

copyNames(table, namespace, unhide) == MapFromEntries(CopyEntries(table, namespace, unhide))

\* The diagnostics of the import-like statements.
selfReferenceError(decl) == [code |-> "SELF-REFERENCE", message |-> <<"self">>, reference |-> decl.id]
moduleNotFoundError(decl) == [code |-> "MODULE-NOT-FOUND", message |-> <<"module">>, reference |-> decl.id]
nameNotFoundError(decl) == [code |-> "NAME-NOT-FOUND", message |-> <<"name">>, reference |-> decl.id]
paramNotFoundError(decl, param) == [code |-> "PARAM-NOT-FOUND", message |-> <<param>>, reference |-> decl.id]
paramIsNotAConstantError(decl, param) == [code |-> "PARAM-NOT-CONST", message |-> <<param>>, reference |-> decl.id]

\* JavaScript truthiness of (bigint | undefined): undefined and 0n are falsy.
Truthy(source) == source # <<>> /\ source[1] # 0

\* The message of a QNT101 diagnostic: its template, the identifier and the module.
recordConflict(errs, current, identifier, exisitingSource, newSource) ==
    LET message == IF Truthy(exisitingSource)
                   THEN <<"Conflicting definitions found for name", identifier, current>>
                   ELSE <<"Built-in name is redefined", identifier, current>>
    IN errs
       \o (IF Truthy(exisitingSource)
           THEN <<[code |-> "QNT101", message |-> message, reference |-> exisitingSource[1]]>>
           ELSE <<>>)
       \o <<[code |-> "QNT101", message |-> message, reference |-> newSource]>>

\* A collectDefinition without the test against builtinNames.
collectDefinitionNoBuiltinCheck(table, errs, current, def, importedFrom) ==
    LET identifier == IF importedFrom # <<>> /\ importedFrom[1].defName # <<>>
                      THEN importedFrom[1].defName
                      ELSE <<def.name>>
        source == IF importedFrom # <<>> THEN importedFrom[1].id ELSE def.id
        nss == IF importedFrom # <<>> THEN namespaces(importedFrom[1], current) ELSE <<>>
    IN IF identifier = <<"_">>
       THEN [table |-> table, errors |-> errs, case |-> "underscore"]
       ELSE IF MapHas(table, identifier) /\ MapGet(table, identifier).id # def.id
       THEN [table |-> table,
             errors |-> recordConflict(errs, current, identifier,
                                      <<MapGet(table, identifier).id>>, source),
             case |-> "conflict"]
       ELSE [table |-> MapSet(table, identifier,
                              [addNamespacesToDef(def, nss) EXCEPT !.importedFrom = importedFrom]),
             errors |-> errs, case |-> IF MapHas(table, identifier) THEN "reset" ELSE "set"]

\* A collectDefinition without the test for the underscore.
collectDefinitionNoUnderscoreCheck(table, errs, current, def, importedFrom) ==
    LET identifier == IF importedFrom # <<>> /\ importedFrom[1].defName # <<>>
                      THEN importedFrom[1].defName
                      ELSE <<def.name>>
        source == IF importedFrom # <<>> THEN importedFrom[1].id ELSE def.id
        nss == IF importedFrom # <<>> THEN namespaces(importedFrom[1], current) ELSE <<>>
    IN IF identifier \in builtinNames
       THEN [table |-> table, errors |-> recordConflict(errs, current, identifier, <<>>, source),
             case |-> "builtin"]
       ELSE IF MapHas(table, identifier) /\ MapGet(table, identifier).id # def.id
       THEN [table |-> table,
             errors |-> recordConflict(errs, current, identifier,
                                      <<MapGet(table, identifier).id>>, source),
             case |-> "conflict"]
       ELSE [table |-> MapSet(table, identifier,
                              [addNamespacesToDef(def, nss) EXCEPT !.importedFrom = importedFrom]),
             errors |-> errs, case |-> IF MapHas(table, identifier) THEN "reset" ELSE "set"]

\* collectDefinition(def, importedFrom): the table and the errors it leaves.
collectDefinition(table, errs, current, def, importedFrom) ==
    LET identifier == IF importedFrom # <<>> /\ importedFrom[1].defName # <<>>
                      THEN importedFrom[1].defName
                      ELSE <<def.name>>
        source == IF importedFrom # <<>> THEN importedFrom[1].id ELSE def.id
        nss == IF importedFrom # <<>> THEN namespaces(importedFrom[1], current) ELSE <<>>
    IN IF identifier = <<"_">>
       THEN [table |-> table, errors |-> errs, case |-> "underscore"]
       ELSE IF identifier \in builtinNames
       THEN [table |-> table, errors |-> recordConflict(errs, current, identifier, <<>>, source),
             case |-> "builtin"]
       ELSE IF MapHas(table, identifier) /\ MapGet(table, identifier).id # def.id
       THEN [table |-> table,
             errors |-> recordConflict(errs, current, identifier,
                                      <<MapGet(table, identifier).id>>, source),
             case |-> "conflict"]
       ELSE [table |-> MapSet(table, identifier,
                              [addNamespacesToDef(def, nss) EXCEPT !.importedFrom = importedFrom]),
             errors |-> errs, case |-> IF MapHas(table, identifier) THEN "reset" ELSE "set"]

\* The diagnostics collectDefinitions records for the entries of newDefs, in order.
RECURSIVE BatchConflicts(_, _, _, _)
BatchConflicts(table, errs, current, newDefs) ==
    IF newDefs = <<>> THEN errs
    ELSE LET e == Head(newDefs)
             errs1 == IF MapHas(table, e.key) /\ MapGet(table, e.key).id # e.def.id
                      THEN recordConflict(errs, current, e.key, <<MapGet(table, e.key).id>>,
                                          e.def.id)
                      ELSE errs
         IN BatchConflicts(table, errs1, current, Tail(newDefs))

collectDefinitions(table, errs, current, newDefs, importedFrom) ==
    LET nss == IF importedFrom # <<>> THEN namespaces(importedFrom[1], current) ELSE <<>>
        newEntries == [i \in 1..Len(newDefs) |->
                         [key |-> newDefs[i].key,
                          def |-> [addNamespacesToDef(newDefs[i].def, nss)
                                     EXCEPT !.importedFrom = importedFrom]]]
    IN [table |-> MapFromEntries(table \o newEntries),
        errors |-> BatchConflicts(table, errs, current, newDefs), case |-> "batch"]

\* ---------------------------------------------------------------- actions
\* An in-place update of the current table (Map.set, Map.delete) is seen
\* through every reference to the same Map object.
SetBoth(newTable) ==
    /\ definitionsByName' = newTable
    /\ definitionsByModule' =
         IF aliased # <<>> THEN MapSet(definitionsByModule, aliased[1], newTable)
         ELSE definitionsByModule
    /\ aliased' = aliased

Record(op, case) == last' = [op |-> op, case |-> case]

\* A module entered without the test for a redefinition.
enterModuleSilent(name) ==
    /\ ~inModule
    /\ nmods < MaxModules
    /\ nmods = 0 => name = "A"
    /\ currentModuleName' = name
    /\ definitionsByName' = <<>>
    /\ aliased' = <<>>
    /\ errors' = errors
    /\ inModule' = TRUE
    /\ nmods' = nmods + 1
    /\ moduleNames' = moduleNames \cup {name}
    /\ Record("enterModule", IF MapHas(definitionsByModule, name) THEN "redefined" ELSE "new")
    /\ UNCHANGED <<definitionsByModule, definitionDepth, ndecls>>

\* The names being interchangeable, the first module of a unit is "A".
enterModule(name) ==
    /\ ~inModule
    /\ nmods < MaxModules
    /\ nmods = 0 => name = "A"
    /\ currentModuleName' = name
    /\ definitionsByName' = <<>>
    /\ aliased' = <<>>
    /\ errors' = IF MapHas(definitionsByModule, name)
                 THEN Append(errors, [code |-> "QNT102", message |-> <<"Module was already defined", name>>,
                                      reference |-> ModuleId(nmods)])
                 ELSE errors
    /\ inModule' = TRUE
    /\ nmods' = nmods + 1
    /\ moduleNames' = moduleNames \cup {name}
    /\ Record("enterModule", IF MapHas(definitionsByModule, name) THEN "redefined" ELSE "new")
    /\ UNCHANGED <<definitionsByModule, definitionDepth, ndecls>>

exitModule ==
    /\ inModule
    /\ definitionDepth = -1
    /\ definitionsByModule' = MapSet(definitionsByModule, currentModuleName, definitionsByName)
    /\ aliased' = <<currentModuleName>>
    /\ inModule' = FALSE
    /\ Record("exitModule", "none")
    /\ UNCHANGED <<definitionsByName, errors, currentModuleName, definitionDepth, nmods, moduleNames, ndecls>>

\* A top-level declaration is visited inside a module, outside every operator body.
AtTopLevel == inModule /\ definitionDepth = -1

\* The effect of a call collectDefinition(def) without importedFrom.
Collect(op, lookupDef) ==
    LET r == collectDefinition(definitionsByName, errors, currentModuleName, lookupDef, <<>>)
    IN /\ SetBoth(r.table)
       /\ errors' = r.errors
       /\ ndecls' = ndecls + 1
       /\ Record(op, r.case)

enterVar(def) ==
    /\ AtTopLevel
    /\ def.kind = "var"
    /\ Collect("enterVar", ToLookup(Node(def, ndecls)))
    /\ UNCHANGED <<currentModuleName, definitionDepth, inModule, nmods, moduleNames>>

enterConst(def) ==
    /\ AtTopLevel
    /\ def.kind = "const"
    /\ Collect("enterConst", ToLookup(Node(def, ndecls)))
    /\ UNCHANGED <<currentModuleName, definitionDepth, inModule, nmods, moduleNames>>

enterTypeDef(def) ==
    /\ AtTopLevel
    /\ def.kind = "typedef"
    /\ Collect("enterTypeDef", ToLookup(Node(def, ndecls)))
    /\ UNCHANGED <<currentModuleName, definitionDepth, inModule, nmods, moduleNames>>

enterAssume(def) ==
    /\ AtTopLevel
    /\ def.kind = "assume"
    /\ Collect("enterAssume", ToLookup(Node(def, ndecls)))
    /\ UNCHANGED <<currentModuleName, definitionDepth, inModule, nmods, moduleNames>>

\* An enterOpDef that collects at every depth.
enterOpDefAnyDepth(def) ==
    /\ inModule
    /\ definitionDepth < MaxDepth
    /\ def.kind = "def"
    /\ definitionDepth' = definitionDepth + 1
    /\ Collect("enterOpDef",
               [ToLookup(Node(def, ndecls)) EXCEPT !.typeAnnotation = FALSE,
                                                  !.depth = <<definitionDepth'>>])
    /\ UNCHANGED <<currentModuleName, inModule, nmods, moduleNames>>

\* The traversal increments definitionDepth before it calls enterOpDef and
\* decrements it after exitOpDef.
enterOpDef(def) ==
    /\ inModule
    /\ definitionDepth < MaxDepth
    /\ def.kind = "def"
    /\ definitionDepth' = definitionDepth + 1
    /\ IF definitionDepth' = 0
       THEN Collect("enterOpDef",
                    [ToLookup(Node(def, ndecls)) EXCEPT !.typeAnnotation = FALSE,
                                                       !.depth = <<definitionDepth'>>])
       ELSE /\ ndecls' = ndecls + 1
            /\ Record("enterOpDef", "nested")
            /\ UNCHANGED <<definitionsByName, definitionsByModule, aliased, errors>>
    /\ UNCHANGED <<currentModuleName, inModule, nmods, moduleNames>>

exitOpDef ==
    /\ inModule
    /\ definitionDepth >= 0
    /\ definitionDepth' = definitionDepth - 1
    /\ Record("exitOpDef", "none")
    /\ UNCHANGED <<definitionsByName, definitionsByModule, aliased, errors,
                   currentModuleName, inModule, nmods, moduleNames, ndecls>>

\* An instance that ignores its overrides.
ApplyOverridesIgnored(instanceTable, errs, todo) == [table |-> instanceTable, errors |-> errs]

\* Overrides applied to a definition of any kind.
RECURSIVE ApplyOverridesAnyKind(_, _, _)
ApplyOverridesAnyKind(instanceTable, errs, todo) ==
    IF todo = <<>> THEN [table |-> instanceTable, errors |-> errs]
    ELSE LET param == Head(todo).param
             ex == Head(todo).ex
             decl == Head(todo).decl
         IN IF ~MapHas(instanceTable, <<param>>)
            THEN ApplyOverridesAnyKind(instanceTable,
                                       Append(errs, paramNotFoundError(decl, param)), Tail(todo))
            ELSE ApplyOverridesAnyKind(
                   MapSet(instanceTable, <<param>>,
                          [MapGet(instanceTable, <<param>>) EXCEPT !.id = ex.id]),
                   errs, Tail(todo))

\* The overrides of an instance applied, in order, to its copy of the table.
RECURSIVE ApplyOverrides(_, _, _)
ApplyOverrides(instanceTable, errs, todo) ==
    IF todo = <<>> THEN [table |-> instanceTable, errors |-> errs]
    ELSE LET param == Head(todo).param
             ex == Head(todo).ex
             decl == Head(todo).decl
         IN IF ~MapHas(instanceTable, <<param>>)
            THEN ApplyOverrides(instanceTable, Append(errs, paramNotFoundError(decl, param)),
                                Tail(todo))
            ELSE IF MapGet(instanceTable, <<param>>).kind # "const"
            THEN ApplyOverrides(instanceTable,
                                Append(errs, paramIsNotAConstantError(decl, param)), Tail(todo))
            ELSE ApplyOverrides(
                   MapSet(instanceTable, <<param>>,
                          [MapGet(instanceTable, <<param>>) EXCEPT !.id = ex.id]),
                   errs, Tail(todo))

\* The lookup without the test for a self-reference.
ModuleLookupNoSelfCheck(registry, current, decl) ==
    IF ~MapHas(registry, decl.protoName) THEN "nomodule" ELSE "found"

\* The two checks every import-like handler starts with.
ModuleLookup(registry, current, decl) ==
    IF decl.protoName = current THEN "self"
    ELSE IF ~MapHas(registry, decl.protoName) THEN "nomodule"
    ELSE "found"

\* An early return that publishes an empty table under the name looked up.
EarlyReturnPublishing(table, registry, errs, decl, why) ==
    [table |-> table, registry |-> MapSet(registry, decl.protoName, <<>>),
     errors |-> Append(errs, IF why = "self" THEN selfReferenceError(decl)
                             ELSE moduleNotFoundError(decl)),
     fresh |-> FALSE, case |-> why]

\* The early return of a handler whose ModuleLookup failed.
EarlyReturn(table, registry, errs, decl, why) ==
    [table |-> table, registry |-> registry,
     errors |-> Append(errs, IF why = "self" THEN selfReferenceError(decl)
                             ELSE moduleNotFoundError(decl)),
     fresh |-> FALSE, case |-> why]

\* The table of the instantiated module with the overrides applied.
InstanceTable(registry, errs, decl) ==
    ApplyOverrides(MapGet(registry, decl.protoName), errs,
                   [i \in 1..Len(decl.overrides) |->
                      [param |-> decl.overrides[i].param,
                       ex |-> decl.overrides[i].ex, decl |-> decl]])

\* An instance that publishes the table of the module without the overrides.
InstanceResultPublishingOrigin(table, registry, errs, current, decl) ==
    LET found == ModuleLookup(registry, current, decl)
    IN IF found # "found"
       THEN EarlyReturn(table, registry, errs, decl, found)
       ELSE LET o == InstanceTable(registry, errs, decl)
                newDefs == copyNames(o.table, decl.qualifiedName, TRUE)
                r == collectDefinitions(table, o.errors, current, newDefs, <<decl>>)
            IN [table |-> r.table,
                registry |-> IF decl.qualifiedName # <<>>
                             THEN MapSet(registry, decl.qualifiedName[1],
                                         MapGet(registry, decl.protoName))
                             ELSE registry,
                errors |-> r.errors, fresh |-> TRUE, case |-> "batch"]

InstanceResult(table, registry, errs, current, decl) ==
    LET found == ModuleLookup(registry, current, decl)
    IN IF found # "found"
       THEN EarlyReturn(table, registry, errs, decl, found)
       ELSE LET o == InstanceTable(registry, errs, decl)
                newDefs == copyNames(o.table, decl.qualifiedName, TRUE)
                r == collectDefinitions(table, o.errors, current, newDefs, <<decl>>)
            IN [table |-> r.table,
                registry |-> IF decl.qualifiedName # <<>>
                             THEN MapSet(registry, decl.qualifiedName[1], o.table)
                             ELSE registry,
                errors |-> r.errors, fresh |-> TRUE, case |-> "batch"]

\* Apply the outcome of an import-like handler; a table built by
\* collectDefinitions is a new Map object.
Install(op, r) ==
    /\ definitionsByName' = r.table
    /\ definitionsByModule' = r.registry
    /\ errors' = r.errors
    /\ aliased' = IF r.fresh THEN <<>> ELSE aliased
    /\ last' = [op |-> op, case |-> r.case]

OptNames == {<<>>} \cup {<<n>> : n \in Qualifiers}

InstanceDecl(n, protoName, qualifiedName, params) ==
    [kind |-> "instance", id |-> DeclId(n), protoName |-> protoName,
     defName |-> <<>>, qualifiedName |-> qualifiedName,
     overrides |-> [i \in 1..Len(params) |-> [param |-> params[i], ex |-> [id |-> ExprId(n, i)]]]]

enterInstance(protoName, qualifiedName, params) ==
    LET decl == InstanceDecl(ndecls, protoName, qualifiedName, params)
    IN /\ AtTopLevel
       /\ Install("enterInstance", InstanceResult(definitionsByName, definitionsByModule, errors,
                                 currentModuleName, decl))
       /\ ndecls' = ndecls + 1
       /\ UNCHANGED <<currentModuleName, definitionDepth, inModule, nmods, moduleNames>>

\* An import that skips a missing name silently.
ImportResultIgnoringMissingName(table, registry, errs, current, decl) ==
    LET found == ModuleLookup(registry, current, decl)
    IN IF found # "found"
       THEN EarlyReturn(table, registry, errs, decl, found)
       ELSE LET moduleTable == MapGet(registry, decl.protoName)
                registry1 == IF decl.qualifiedName # <<>>
                             THEN MapSet(registry, decl.qualifiedName[1], moduleTable)
                             ELSE registry
                importableDefinitions == copyNames(moduleTable, qualifier(decl), TRUE)
            IN IF decl.defName = <<>> \/ decl.defName = <<"*">>
               THEN LET r == collectDefinitions(table, errs, current, importableDefinitions,
                                                <<decl>>)
                    IN [table |-> r.table, registry |-> registry1, errors |-> r.errors,
                        fresh |-> TRUE, case |-> "batch"]
               ELSE IF ~MapHas(importableDefinitions, decl.defName)
               THEN [table |-> table, registry |-> registry1,
                     errors |-> errs, fresh |-> FALSE,
                     case |-> "noname"]
               ELSE LET r == collectDefinition(table, errs, current,
                                               MapGet(importableDefinitions, decl.defName),
                                               <<decl>>)
                    IN [table |-> r.table, registry |-> registry1, errors |-> r.errors,
                        fresh |-> FALSE, case |-> r.case]

ImportResult(table, registry, errs, current, decl) ==
    LET found == ModuleLookup(registry, current, decl)
    IN IF found # "found"
       THEN EarlyReturn(table, registry, errs, decl, found)
       ELSE LET moduleTable == MapGet(registry, decl.protoName)
                registry1 == IF decl.qualifiedName # <<>>
                             THEN MapSet(registry, decl.qualifiedName[1], moduleTable)
                             ELSE registry
                importableDefinitions == copyNames(moduleTable, qualifier(decl), TRUE)
            IN IF decl.defName = <<>> \/ decl.defName = <<"*">>
               THEN LET r == collectDefinitions(table, errs, current, importableDefinitions,
                                                <<decl>>)
                    IN [table |-> r.table, registry |-> registry1, errors |-> r.errors,
                        fresh |-> TRUE, case |-> "batch"]
               ELSE IF ~MapHas(importableDefinitions, decl.defName)
               THEN [table |-> table, registry |-> registry1,
                     errors |-> Append(errs, nameNotFoundError(decl)), fresh |-> FALSE,
                     case |-> "noname"]
               ELSE LET r == collectDefinition(table, errs, current,
                                               MapGet(importableDefinitions, decl.defName),
                                               <<decl>>)
                    IN [table |-> r.table, registry |-> registry1, errors |-> r.errors,
                        fresh |-> FALSE, case |-> r.case]

ExportResult(table, registry, errs, current, decl) ==
    LET found == ModuleLookup(registry, current, decl)
    IN IF found # "found"
       THEN EarlyReturn(table, registry, errs, decl, found)
       ELSE LET moduleTable == MapGet(registry, decl.protoName)
                exportableDefinitions == copyNames(moduleTable, qualifier(decl), FALSE)
            IN IF decl.defName = <<>> \/ decl.defName = <<"*">>
               THEN LET r == collectDefinitions(table, errs, current, exportableDefinitions,
                                                <<decl>>)
                    IN [table |-> r.table, registry |-> registry, errors |-> r.errors,
                        fresh |-> TRUE, case |-> "batch"]
               ELSE IF ~MapHas(exportableDefinitions, decl.defName)
               THEN [table |-> table, registry |-> registry,
                     errors |-> Append(errs, nameNotFoundError(decl)), fresh |-> FALSE,
                     case |-> "noname"]
               ELSE LET r == collectDefinition(table, errs, current,
                                               MapGet(exportableDefinitions, decl.defName),
                                               <<decl>>)
                    IN [table |-> r.table, registry |-> registry, errors |-> r.errors,
                        fresh |-> FALSE, case |-> r.case]

OptDefNames == {<<"*">>} \cup {<<n>> : n \in DefNames}

ImportDecl(n, protoName, defName, qualifiedName) ==
    [kind |-> "import", id |-> DeclId(n), protoName |-> protoName,
     defName |-> defName, qualifiedName |-> qualifiedName, overrides |-> <<>>]

ExportDecl(n, protoName, defName, qualifiedName) ==
    [kind |-> "export", id |-> DeclId(n), protoName |-> protoName,
     defName |-> defName, qualifiedName |-> qualifiedName, overrides |-> <<>>]

enterImport(protoName, defName, qualifiedName) ==
    LET decl == ImportDecl(ndecls, protoName, defName, qualifiedName)
    IN /\ AtTopLevel
       /\ Install("enterImport", ImportResult(definitionsByName, definitionsByModule, errors,
                               currentModuleName, decl))
       /\ ndecls' = ndecls + 1
       /\ UNCHANGED <<currentModuleName, definitionDepth, inModule, nmods, moduleNames>>

enterExport(protoName, defName, qualifiedName) ==
    LET decl == ExportDecl(ndecls, protoName, defName, qualifiedName)
    IN /\ AtTopLevel
       /\ Install("enterExport", ExportResult(definitionsByName, definitionsByModule, errors,
                               currentModuleName, decl))
       /\ ndecls' = ndecls + 1
       /\ UNCHANGED <<currentModuleName, definitionDepth, inModule, nmods, moduleNames>>

\* The public interface NameResolver uses for scoped definitions.
ParamX == [id |-> 7, name |-> "x", kind |-> "param", typeAnnotation |-> FALSE]

callCollectDefinition(def) ==
    /\ Collect("collectDefinition", ToLookup(def))
    /\ UNCHANGED <<currentModuleName, definitionDepth, inModule, nmods, moduleNames>>

deleteDefinition(identifier) ==
    /\ SetBoth(MapDelete(definitionsByName, identifier))
    /\ ndecls' = ndecls + 1
    /\ Record("deleteDefinition", "none")
    /\ UNCHANGED <<errors, currentModuleName, definitionDepth, inModule, nmods, moduleNames>>

getDefinition(identifier) ==
    IF MapHas(definitionsByName, identifier) THEN <<MapGet(definitionsByName, identifier)>>
    ELSE <<>>

ParamLists == {<<>>} \cup {<<p>> : p \in ParamNames}

\* The traversal handles at most MaxDecls declarations and calls.
Budget == ndecls < MaxDecls

Next ==
    \/ \E name \in Names : enterModule(name) /\ UNCHANGED <<serverVars, uintVars, effectVars>>
    \/ exitModule /\ UNCHANGED <<serverVars, uintVars, effectVars>>
    \/ exitOpDef /\ UNCHANGED <<serverVars, uintVars, effectVars>>
    \/ \E def \in Defs : Budget /\ enterVar(def) /\ UNCHANGED <<serverVars, uintVars, effectVars>>
    \/ \E def \in Defs : Budget /\ enterConst(def) /\ UNCHANGED <<serverVars, uintVars, effectVars>>
    \/ \E def \in Defs : Budget /\ enterTypeDef(def) /\ UNCHANGED <<serverVars, uintVars, effectVars>>
    \/ \E def \in Defs : Budget /\ enterAssume(def) /\ UNCHANGED <<serverVars, uintVars, effectVars>>
    \/ \E def \in Defs : Budget /\ enterOpDef(def) /\ UNCHANGED <<serverVars, uintVars, effectVars>>
    \/ \E m \in Names, q \in OptNames, o \in ParamLists : Budget /\ enterInstance(m, q, o) /\ UNCHANGED <<serverVars, uintVars, effectVars>>
    \/ \E m \in Names, d \in OptDefNames, q \in OptNames : Budget /\ enterImport(m, d, q) /\ UNCHANGED <<serverVars, uintVars, effectVars>>
    \/ \E m \in Names, d \in OptDefNames, q \in OptNames : Budget /\ enterExport(m, d, q) /\ UNCHANGED <<serverVars, uintVars, effectVars>>
    \/ Budget /\ callCollectDefinition(ParamX) /\ UNCHANGED <<serverVars, uintVars, effectVars>>
    \/ Budget /\ deleteDefinition(<<"x">>) /\ UNCHANGED <<serverVars, uintVars, effectVars>>

Spec == Init /\ [][Next]_vars

\* --------------------------------------------------------- language server
\* The event loop runs a handler or a settlement only when no promise
\* callback is ready: callbacks run before the next event is delivered.
Idle == microtasks = <<>>

Job(kind, uri, version, diagnostics) ==
    [kind |-> kind, uri |-> uri, version |-> version, diagnostics |-> diagnostics]

\* documents.onDidChangeContent: parseDocument runs to its end inside the
\* handler and returns a settled promise; the callback registered on it is
\* then ready.
onDidChangeContent(uri, parsed) ==
    /\ Idle
    /\ nchanges < MaxChanges
    /\ nchanges' = nchanges + 1
    /\ documents' = documents \cup {uri}
    /\ microtasks' = <<IF parsed THEN Job("parsed", uri, nchanges', "none")
                                ELSE Job("catch", uri, nchanges', "parse")>>
    /\ UNCHANGED <<parsedDataByDocument, docsByDocument, inferredDataByDocument,
                   pendingChecks, sentDiagnostics>>

\* The first callback: stores the parsed data and the documentation and
\* starts checkTypesAndEffects, whose promise is settled at once or in a
\* later task, fulfilled or rejected.
thenParsed(checked, settled) ==
    /\ microtasks # <<>>
    /\ Head(microtasks).kind = "parsed"
    /\ LET job == Head(microtasks)
           next == IF checked THEN Job("inferred", job.uri, job.version, "none")
                              ELSE Job("catch", job.uri, job.version, "check")
       IN /\ parsedDataByDocument' = [parsedDataByDocument EXCEPT ![job.uri] = <<job.version>>]
          /\ docsByDocument' = [docsByDocument EXCEPT ![job.uri] = <<job.version>>]
          /\ IF settled
             THEN microtasks' = Append(Tail(microtasks), next) /\ pendingChecks' = pendingChecks
             ELSE microtasks' = Tail(microtasks) /\ pendingChecks' = pendingChecks \cup {next}
    /\ UNCHANGED <<inferredDataByDocument, documents, sentDiagnostics, nchanges>>

\* The promise of a check started earlier is settled: its callback is ready.
checkSettles(job) ==
    /\ Idle
    /\ job \in pendingChecks
    /\ pendingChecks' = pendingChecks \ {job}
    /\ microtasks' = <<job>>
    /\ UNCHANGED <<parsedDataByDocument, docsByDocument, inferredDataByDocument, documents,
                   sentDiagnostics, nchanges>>

\* The second callback: stores the inferred data and clears the diagnostics.
thenInferred ==
    /\ microtasks # <<>>
    /\ Head(microtasks).kind = "inferred"
    /\ LET job == Head(microtasks)
       IN /\ inferredDataByDocument' = [inferredDataByDocument EXCEPT ![job.uri] = <<job.version>>]
          /\ sentDiagnostics' = Append(sentDiagnostics,
                                       [uri |-> job.uri, version |-> job.version,
                                        diagnostics |-> "none"])
    /\ microtasks' = Tail(microtasks)
    /\ UNCHANGED <<parsedDataByDocument, docsByDocument, documents, pendingChecks, nchanges>>

\* The catch callback: sends the diagnostics of the stage that failed.
catchDiagnostics ==
    /\ microtasks # <<>>
    /\ Head(microtasks).kind = "catch"
    /\ LET job == Head(microtasks)
       IN sentDiagnostics' = Append(sentDiagnostics,
                                    [uri |-> job.uri, version |-> job.version,
                                     diagnostics |-> job.diagnostics])
    /\ microtasks' = Tail(microtasks)
    /\ UNCHANGED <<parsedDataByDocument, docsByDocument, inferredDataByDocument, documents,
                   pendingChecks, nchanges>>

\* documents.onDidClose: the close event of an open document.
onDidClose(uri) ==
    /\ Idle
    /\ uri \in documents
    /\ documents' = documents \ {uri}
    /\ parsedDataByDocument' = [parsedDataByDocument EXCEPT ![uri] = <<>>]
    /\ docsByDocument' = [docsByDocument EXCEPT ![uri] = <<>>]
    /\ inferredDataByDocument' = [inferredDataByDocument EXCEPT ![uri] = <<>>]
    /\ UNCHANGED <<microtasks, pendingChecks, sentDiagnostics, nchanges>>

NextServer ==
    \/ \E uri \in Uris, parsed \in BOOLEAN : onDidChangeContent(uri, parsed) /\ UNCHANGED <<collectorVars, uintVars, effectVars>>
    \/ \E checked \in BOOLEAN, settled \in BOOLEAN : thenParsed(checked, settled) /\ UNCHANGED <<collectorVars, uintVars, effectVars>>
    \/ \E job \in pendingChecks : checkSettles(job) /\ UNCHANGED <<collectorVars, uintVars, effectVars>>
    \/ thenInferred /\ UNCHANGED <<collectorVars, uintVars, effectVars>>
    \/ catchDiagnostics /\ UNCHANGED <<collectorVars, uintVars, effectVars>>
    \/ \E uri \in Uris : onDidClose(uri) /\ UNCHANGED <<collectorVars, uintVars, effectVars>>

SpecServer == Init /\ [][NextServer]_vars

\* ------------------------------------------------------------- BoundedUInt
\* The smallest and the largest value of the integer type.
MIN == 0

MAX == (2^BITS) - 1

UInt(x) == [v |-> x, error |-> IF MIN <= x /\ x <= MAX THEN "" ELSE "out of range"]

isInRange(x) == x.v >= MIN /\ x.v <= MAX

isValid(x) == x.error = "" /\ isInRange(x)

\* The source passes the operation op and applies it to valid operands;
\* here the caller passes the application op(lhs, rhs), which is evaluated
\* only in the last branch.
wrapErrorBin(lhs, rhs, op_lhs_rhs) ==
    IF ~isValid(lhs) THEN lhs
    ELSE IF ~isValid(rhs) THEN rhs
    ELSE op_lhs_rhs

absDiffUnsafe(lhs, rhs) ==
    LET res == lhs.v - rhs.v
    IN [v |-> IF res < 0 THEN -res ELSE res, error |-> ""]

\* An absolute difference that does not test its operands.
absDiffUnchecked(lhs, rhs) == absDiffUnsafe(lhs, rhs)

absDiff(lhs, rhs) == wrapErrorBin(lhs, rhs, absDiffUnsafe(lhs, rhs))

\* A checked addition that reports an overflow at MAX already.
checkedAddUnsafeOffByOne(lhs, rhs) ==
    LET res == lhs.v + rhs.v
    IN [v |-> res, error |-> IF res >= MAX THEN "overflow" ELSE ""]

checkedAddUnsafe(lhs, rhs) ==
    LET res == lhs.v + rhs.v
    IN [v |-> res, error |-> IF res > MAX THEN "overflow" ELSE ""]

checkedAdd(lhs, rhs) == wrapErrorBin(lhs, rhs, checkedAddUnsafe(lhs, rhs))

checkedSubUnsafe(lhs, rhs) ==
    LET res == lhs.v - rhs.v
    IN [v |-> res, error |-> IF res < MIN THEN "underflow" ELSE ""]

checkedSub(lhs, rhs) == wrapErrorBin(lhs, rhs, checkedSubUnsafe(lhs, rhs))

checkedMulUnsafe(lhs, rhs) ==
    LET res == lhs.v * rhs.v
    IN [v |-> res, error |-> IF res > MAX THEN "overflow" ELSE ""]

checkedMul(lhs, rhs) == wrapErrorBin(lhs, rhs, checkedMulUnsafe(lhs, rhs))

checkedDivUnsafe(lhs, rhs) ==
    IF rhs.v = 0 THEN [v |-> 0, error |-> "division by zero"]
    ELSE [v |-> lhs.v \div rhs.v, error |-> ""]

checkedDiv(lhs, rhs) == wrapErrorBin(lhs, rhs, checkedDivUnsafe(lhs, rhs))

checkedRemUnsafe(lhs, rhs) ==
    IF rhs.v = 0 THEN [v |-> 0, error |-> "division by zero"]
    ELSE [v |-> lhs.v % rhs.v, error |-> ""]

checkedRem(lhs, rhs) == wrapErrorBin(lhs, rhs, checkedRemUnsafe(lhs, rhs))

checkedPowUnsafe(lhs, rhs) ==
    IF lhs.v = rhs.v /\ lhs.v = 0 THEN [v |-> 1, error |-> "undefined"]
    ELSE LET res == lhs.v ^ rhs.v
         IN [v |-> res, error |-> IF res > MAX THEN "overflow" ELSE ""]

checkedPow(lhs, rhs) == wrapErrorBin(lhs, rhs, checkedPowUnsafe(lhs, rhs))

saturatingAddUnsafe(lhs, rhs) ==
    LET res == lhs.v + rhs.v
    IN [v |-> IF res < MAX THEN res ELSE MAX, error |-> ""]

saturatingAdd(lhs, rhs) == wrapErrorBin(lhs, rhs, saturatingAddUnsafe(lhs, rhs))

\* A saturating subtraction that does not clamp at MIN.
saturatingSubUnsafeUnclamped(lhs, rhs) == [v |-> lhs.v - rhs.v, error |-> ""]

saturatingSubUnsafe(lhs, rhs) ==
    LET res == lhs.v - rhs.v
    IN [v |-> IF res > MIN THEN res ELSE MIN, error |-> ""]

saturatingSub(lhs, rhs) == wrapErrorBin(lhs, rhs, saturatingSubUnsafe(lhs, rhs))

saturatingMulUnsafe(lhs, rhs) ==
    LET res == lhs.v * rhs.v
    IN [v |-> IF res < MAX THEN res ELSE MAX, error |-> ""]

saturatingMul(lhs, rhs) == wrapErrorBin(lhs, rhs, saturatingMulUnsafe(lhs, rhs))

saturatingPowUnsafe(lhs, rhs) ==
    IF lhs.v = rhs.v /\ lhs.v = 0 THEN [v |-> 1, error |-> "undefined"]
    ELSE LET res == lhs.v ^ rhs.v
         IN [v |-> IF res < MAX THEN res ELSE MAX, error |-> ""]

saturatingPow(lhs, rhs) == wrapErrorBin(lhs, rhs, saturatingPowUnsafe(lhs, rhs))

wrappingAddUnsafe(lhs, rhs) == [v |-> (lhs.v + rhs.v) % (MAX + 1), error |-> ""]

wrappingAdd(lhs, rhs) == wrapErrorBin(lhs, rhs, wrappingAddUnsafe(lhs, rhs))

\* A wrapping subtraction that wraps at MAX and not at MAX + 1.
wrappingSubUnsafeModMax(lhs, rhs) ==
    LET res == lhs.v - rhs.v
        adjusted == IF res < MIN THEN res + MAX ELSE res
    IN [v |-> adjusted % MAX, error |-> ""]

wrappingSubUnsafe(lhs, rhs) ==
    LET res == lhs.v - rhs.v
        adjusted == IF res < MIN THEN res + (MAX + 1) ELSE res
    IN [v |-> adjusted % (MAX + 1), error |-> ""]

wrappingSub(lhs, rhs) == wrapErrorBin(lhs, rhs, wrappingSubUnsafe(lhs, rhs))

wrappingMulUnsafe(lhs, rhs) == [v |-> (lhs.v * rhs.v) % (MAX + 1), error |-> ""]

wrappingMul(lhs, rhs) == wrapErrorBin(lhs, rhs, wrappingMulUnsafe(lhs, rhs))

wrappingDiv(lhs, rhs) == checkedDiv(lhs, rhs)

wrappingRem(lhs, rhs) == checkedRem(lhs, rhs)

wrappingPowUnsafe(lhs, rhs) ==
    IF lhs.v = rhs.v /\ lhs.v = 0 THEN [v |-> 1, error |-> "undefined"]
    ELSE [v |-> (lhs.v ^ rhs.v) % (MAX + 1), error |-> ""]

wrappingPow(lhs, rhs) == wrapErrorBin(lhs, rhs, wrappingPowUnsafe(lhs, rhs))

\* The operands of a first call: UInt(x) for x in the interval and up to
\* OutOfRange beyond each end of it.
Constructed == {UInt(x) : x \in (MIN - OutOfRange)..(MAX + OutOfRange)}

\* The module is instantiated with a size (`import BoundedUInt_Test(BITS = 8).*`;
\* the tests require BITS > 1) and two operands are constructed.
InitUInt ==
    /\ InitCollector
    /\ InitServer
    /\ InitVisitor
    /\ BITS \in 2..MaxBits
    /\ opLhs \in Constructed
    /\ opRhs \in Constructed
    /\ opResult = UInt(0)
    /\ applied = "none"

\* The operands of the next call: the two operands of the state, or the
\* value the last call returned in the place of one of them.
OperandPairs ==
    {<<opLhs, opRhs>>}
    \cup (IF applied = "none" THEN {} ELSE {<<opResult, opRhs>>, <<opLhs, opResult>>})

\* The exponent of a power is at most BITS + 1, as in the tests of the
\* module: the powers stay in the range of the model checker's integers.
SmallExponent(rhs) == rhs.v <= BITS + 1

\* The call name(lhs, rhs) of a binary operation of the module.
Call(name, lhs, rhs) ==
    CASE name = "absDiff" -> absDiff(lhs, rhs)
      [] name = "checkedAdd" -> checkedAdd(lhs, rhs)
      [] name = "checkedSub" -> checkedSub(lhs, rhs)
      [] name = "checkedMul" -> checkedMul(lhs, rhs)
      [] name = "checkedDiv" -> checkedDiv(lhs, rhs)
      [] name = "checkedRem" -> checkedRem(lhs, rhs)
      [] name = "checkedPow" -> checkedPow(lhs, rhs)
      [] name = "saturatingAdd" -> saturatingAdd(lhs, rhs)
      [] name = "saturatingSub" -> saturatingSub(lhs, rhs)
      [] name = "saturatingMul" -> saturatingMul(lhs, rhs)
      [] name = "saturatingPow" -> saturatingPow(lhs, rhs)
      [] name = "wrappingAdd" -> wrappingAdd(lhs, rhs)
      [] name = "wrappingSub" -> wrappingSub(lhs, rhs)
      [] name = "wrappingMul" -> wrappingMul(lhs, rhs)
      [] name = "wrappingDiv" -> wrappingDiv(lhs, rhs)
      [] name = "wrappingRem" -> wrappingRem(lhs, rhs)
      [] name = "wrappingPow" -> wrappingPow(lhs, rhs)

\* One call name(lhs, rhs) on the operands of the state.
Eval(name) ==
    \E p \in OperandPairs :
        /\ name \in {"checkedPow", "saturatingPow", "wrappingPow"} => SmallExponent(p[2])
        /\ opLhs' = p[1]
        /\ opRhs' = p[2]
        /\ opResult' = Call(name, p[1], p[2])
        /\ applied' = name
        /\ BITS' = BITS

NextUInt ==
    \/ Eval("absDiff") /\ UNCHANGED <<collectorVars, serverVars, effectVars>>
    \/ Eval("checkedAdd") /\ UNCHANGED <<collectorVars, serverVars, effectVars>>
    \/ Eval("checkedSub") /\ UNCHANGED <<collectorVars, serverVars, effectVars>>
    \/ Eval("checkedMul") /\ UNCHANGED <<collectorVars, serverVars, effectVars>>
    \/ Eval("checkedDiv") /\ UNCHANGED <<collectorVars, serverVars, effectVars>>
    \/ Eval("checkedRem") /\ UNCHANGED <<collectorVars, serverVars, effectVars>>
    \/ Eval("checkedPow") /\ UNCHANGED <<collectorVars, serverVars, effectVars>>
    \/ Eval("saturatingAdd") /\ UNCHANGED <<collectorVars, serverVars, effectVars>>
    \/ Eval("saturatingSub") /\ UNCHANGED <<collectorVars, serverVars, effectVars>>
    \/ Eval("saturatingMul") /\ UNCHANGED <<collectorVars, serverVars, effectVars>>
    \/ Eval("saturatingPow") /\ UNCHANGED <<collectorVars, serverVars, effectVars>>
    \/ Eval("wrappingAdd") /\ UNCHANGED <<collectorVars, serverVars, effectVars>>
    \/ Eval("wrappingSub") /\ UNCHANGED <<collectorVars, serverVars, effectVars>>
    \/ Eval("wrappingMul") /\ UNCHANGED <<collectorVars, serverVars, effectVars>>
    \/ Eval("wrappingDiv") /\ UNCHANGED <<collectorVars, serverVars, effectVars>>
    \/ Eval("wrappingRem") /\ UNCHANGED <<collectorVars, serverVars, effectVars>>
    \/ Eval("wrappingPow") /\ UNCHANGED <<collectorVars, serverVars, effectVars>>

SpecUInt == InitUInt /\ [][NextUInt]_vars

\* -------------------------------------------------------- ToEffectVisitor
\* The listener that builds an Effect from the events of a walk over the
\* parse tree of an effect.  The grammar and the walker are not part of the
\* sources: the walk delivers the events in the order the listener needs,
\*   effect    ::= Read[vars] | Update[vars] | Read[vars] & Update[vars]
\*               | Pure | IDENTIFIER | (effect, ..., effect) => effect
\*   vars      ::= 'x', ..., 'x'  |  v, ..., v
\* and one walk is the walk of one effect.

\* The variables of `Pure` and of the missing half of Read / Update.
emptyVariables == [kind |-> "concrete", vars |-> <<>>]

\* The identifiers of the text.
EffectNames == {"e"}
StateVarNames == {"x", "y"}
QuantifiedNames == {<<"v">>, <<"v", "w">>}

\* An event of the walk and the effect it completed, if any.
Event(kind, completed) == [kind |-> kind, effect |-> completed]

\* The events that complete an effect, and those of the effect rules.
Completing == {"exitReadOnly", "exitUpdateOnly", "exitReadAndUpdate", "exitPure",
               "exitVarEffect", "exitArrowEffect"}
EffectRules == Completing \cup {"enterArrowEffect"}
VariablesRules == {"exitConcreteVars", "exitQuantification"}

\* The number of arrow effects entered and not yet exited.
RECURSIVE OpenArrows(_)
OpenArrows(evs) ==
    IF evs = <<>> THEN 0
    ELSE LET n == Len(evs)
         IN OpenArrows(SubSeq(evs, 1, n - 1))
            + (IF evs[n].kind = "enterArrowEffect" THEN 1
               ELSE IF evs[n].kind = "exitArrowEffect" THEN -1
               ELSE 0)

\* The nesting depth after the event at position i.
Depth(evs, i) == OpenArrows(SubSeq(evs, 1, i))

\* The position of the last event of one of the rules, 0 when there is none.
LastOf(evs, rules) ==
    IF \E i \in 1..Len(evs) : evs[i].kind \in rules
    THEN CHOOSE i \in 1..Len(evs) :
             /\ evs[i].kind \in rules
             /\ \A j \in (i + 1)..Len(evs) : evs[j].kind \notin rules
    ELSE 0

\* The position of the walk inside a concrete effect: the vars completed
\* since the last effect event, and the state variable references since.
VariablesReady(evs) ==
    Cardinality({i \in (LastOf(evs, EffectRules) + 1)..Len(evs) : evs[i].kind \in VariablesRules})

StateVarRefsOpen(evs) == Len(evs) - LastOf(evs, EffectRules \cup VariablesRules)

\* The effect of the text has been walked to its end.
WalkDone(evs) == OpenArrows(evs) = 0 /\ \E i \in 1..Len(evs) : evs[i].kind \in Completing

\* The walk can deliver one more event, of a concrete effect that has n
\* vars, or inside the vars of a concrete effect.
More == Len(events) < MaxEvents /\ ~WalkDone(events)

AfterVars(n) == More /\ VariablesReady(events) = n /\ StateVarRefsOpen(events) = 0

InVars == More /\ VariablesReady(events) <= 1

\* pushEffect with the element added to the bottom array of the stack.
pushEffectOntoFirst(stack, e) ==
    /\ effect' = <<e>>
    /\ effectStack' = IF Len(stack) > 0
                      THEN [stack EXCEPT ![1] = Append(@, e)]
                      ELSE stack

\* pushEffect on the stack as the caller left it.
pushEffect(stack, e) ==
    /\ effect' = <<e>>
    /\ effectStack' = IF Len(stack) > 0
                      THEN [stack EXCEPT ![Len(stack)] = Append(@, e)]
                      ELSE stack

\* Array.pop: the last element and the rest.
Last(s) == s[Len(s)]
Front(s) == SubSeq(s, 1, Len(s) - 1)

exitReadOnly ==
    /\ AfterVars(1)
    /\ LET variables == Last(variablesStack)
           e == [kind |-> "concrete", read |-> variables, update |-> emptyVariables]
       IN /\ pushEffect(effectStack, e)
          /\ events' = Append(events, Event("exitReadOnly", <<e>>))
    /\ variablesStack' = Front(variablesStack)
    /\ UNCHANGED stateVars

exitUpdateOnly ==
    /\ AfterVars(1)
    /\ LET variables == Last(variablesStack)
           e == [kind |-> "concrete", read |-> emptyVariables, update |-> variables]
       IN /\ pushEffect(effectStack, e)
          /\ events' = Append(events, Event("exitUpdateOnly", <<e>>))
    /\ variablesStack' = Front(variablesStack)
    /\ UNCHANGED stateVars

exitReadAndUpdate ==
    /\ AfterVars(2)
    /\ LET update == Last(variablesStack)
           read == Last(Front(variablesStack))
           e == [kind |-> "concrete", read |-> read, update |-> update]
       IN /\ pushEffect(effectStack, e)
          /\ events' = Append(events, Event("exitReadAndUpdate", <<e>>))
    /\ variablesStack' = Front(Front(variablesStack))
    /\ UNCHANGED stateVars

exitPure ==
    /\ AfterVars(0)
    /\ LET e == [kind |-> "concrete", read |-> emptyVariables, update |-> emptyVariables]
       IN /\ pushEffect(effectStack, e)
          /\ events' = Append(events, Event("exitPure", <<e>>))
    /\ UNCHANGED <<variablesStack, stateVars>>

exitVarEffect(name) ==
    /\ AfterVars(0)
    /\ LET e == [kind |-> "var", name |-> name]
       IN /\ pushEffect(effectStack, e)
          /\ events' = Append(events, Event("exitVarEffect", <<e>>))
    /\ UNCHANGED <<variablesStack, stateVars>>

enterArrowEffect ==
    /\ AfterVars(0)
    /\ effectStack' = Append(effectStack, <<>>)
    /\ events' = Append(events, Event("enterArrowEffect", <<>>))
    /\ UNCHANGED <<effect, variablesStack, stateVars>>

\* The walk exits an arrow effect after its result, the last of its effects.
exitArrowEffect ==
    /\ AfterVars(0)
    /\ OpenArrows(events) > 0
    /\ Last(events).kind \in Completing
    /\ LET effects == Last(effectStack)
           e == [kind |-> "arrow", effects |-> effects]
       IN /\ pushEffect(Front(effectStack), e)
          /\ events' = Append(events, Event("exitArrowEffect", <<e>>))
    /\ UNCHANGED <<variablesStack, stateVars>>

exitConcreteVars ==
    /\ InVars
    /\ LET variables == [kind |-> "concrete", vars |-> stateVars]
       IN variablesStack' = Append(variablesStack, variables)
    /\ stateVars' = <<>>
    /\ events' = Append(events, Event("exitConcreteVars", <<>>))
    /\ UNCHANGED <<effect, effectStack>>

exitQuantification(names) ==
    /\ InVars
    /\ StateVarRefsOpen(events) = 0
    /\ IF Len(names) = 1
       THEN variablesStack' = Append(variablesStack, [kind |-> "quantification", name |-> names[1]])
       ELSE LET unionVariables == [i \in 1..Len(names) |->
                                       [kind |-> "quantification", name |-> names[i]]]
            IN variablesStack' = Append(variablesStack,
                                        [kind |-> "union", variables |-> unionVariables])
    /\ events' = Append(events, Event("exitQuantification", <<>>))
    /\ UNCHANGED <<effect, effectStack, stateVars>>

exitStateVarRef(varRef) ==
    /\ InVars
    /\ StateVarRefsOpen(events) < MaxStateVars
    /\ stateVars' = Append(stateVars, varRef)
    /\ events' = Append(events, Event("exitStateVarRef", <<>>))
    /\ UNCHANGED <<effect, effectStack, variablesStack>>

NextEffect ==
    \/ exitReadOnly /\ UNCHANGED <<collectorVars, serverVars, uintVars>>
    \/ exitUpdateOnly /\ UNCHANGED <<collectorVars, serverVars, uintVars>>
    \/ exitReadAndUpdate /\ UNCHANGED <<collectorVars, serverVars, uintVars>>
    \/ exitPure /\ UNCHANGED <<collectorVars, serverVars, uintVars>>
    \/ \E name \in EffectNames : exitVarEffect(name) /\ UNCHANGED <<collectorVars, serverVars, uintVars>>
    \/ enterArrowEffect /\ UNCHANGED <<collectorVars, serverVars, uintVars>>
    \/ exitArrowEffect /\ UNCHANGED <<collectorVars, serverVars, uintVars>>
    \/ exitConcreteVars /\ UNCHANGED <<collectorVars, serverVars, uintVars>>
    \/ \E names \in QuantifiedNames : exitQuantification(names) /\ UNCHANGED <<collectorVars, serverVars, uintVars>>
    \/ \E varRef \in StateVarNames : exitStateVarRef(varRef) /\ UNCHANGED <<collectorVars, serverVars, uintVars>>

SpecEffect == Init /\ [][NextEffect]_vars

\* ------------------------------------------------------------------ claims
AllDefs == Defs \cup {ParamX}

\* The step is a call of the handler op.
Did(op) == last'.op = op

\* The step is a call collectDefinition(def) without importedFrom: a handler
\* of var, const, typedef, assume or of a top-level operator definition, or
\* the direct call through the public interface.
DirectCollect(def) ==
    \/ Did("enterVar") /\ enterVar(def)
    \/ Did("enterConst") /\ enterConst(def)
    \/ Did("enterTypeDef") /\ enterTypeDef(def)
    \/ Did("enterAssume") /\ enterAssume(def)
    \/ Did("enterOpDef") /\ enterOpDef(def) /\ definitionDepth' = 0
    \/ Did("collectDefinition") /\ def = ParamX /\ callCollectDefinition(def)

\* The id of the definition such a call collects.
CollectedId(def) == IF def = ParamX THEN def.id ELSE Node(def, ndecls).id

Bound(table, identifier, id) ==
    MapHas(table, identifier) /\ MapGet(table, identifier).id = id

BoundToOther(table, identifier, id) ==
    MapHas(table, identifier) /\ MapGet(table, identifier).id # id

\* The diagnostics the step appended.
NewErrors == SubSeq(errors', Len(errors) + 1, Len(errors'))

ErrorsKept == Len(errors') >= Len(errors) /\ SubSeq(errors', 1, Len(errors)) = errors

\* C1: when collectDefinition is called for a definition named x while the
\* current table binds x to a definition with a different id, exactly two
\* diagnostics are appended, the first referencing the existing id and the
\* second the new one, the existing entry is not overwritten and
\* getDefinition(x) still returns the first definition collected.
C1_ConflictTwoDiagnostics ==
    [][\A def \in AllDefs :
         (BoundToOther(definitionsByName, <<def.name>>, CollectedId(def)) /\ DirectCollect(def))
         => /\ ErrorsKept
            /\ Len(NewErrors) = 2
            /\ NewErrors[1].reference = MapGet(definitionsByName, <<def.name>>).id
            /\ NewErrors[2].reference = CollectedId(def)
            /\ definitionsByName' = definitionsByName
            /\ getDefinition(<<def.name>>)' = getDefinition(<<def.name>>)]_vars

\* The batches collectDefinitions receives from an import or export of all
\* names and from an instance, in the current state.
ImportBatch(decl) ==
    copyNames(MapGet(definitionsByModule, decl.protoName), qualifier(decl), TRUE)

ExportBatch(decl) ==
    copyNames(MapGet(definitionsByModule, decl.protoName), qualifier(decl), FALSE)

InstanceBatch(decl) ==
    copyNames(InstanceTable(definitionsByModule, errors, decl).table, decl.qualifiedName, TRUE)

Found(decl) == ModuleLookup(definitionsByModule, currentModuleName, decl) = "found"

\* The diagnostic is a QNT101 about the identifier.
About(e, identifier) == e.code = "QNT101" /\ e.message[2] = identifier

\* Some two consecutive diagnostics appended by the step are about the
\* identifier and reference a and b.
TwoDiagnostics(identifier, a, b) ==
    \E j \in 1..(Len(NewErrors) - 1) :
        /\ NewErrors[j].reference = a /\ About(NewErrors[j], identifier)
        /\ NewErrors[j + 1].reference = b /\ About(NewErrors[j + 1], identifier)

FirstWriterWins(newDefs) ==
    \A i \in 1..Len(newDefs) :
        LET N == newDefs[i].key
            id == newDefs[i].def.id
        IN /\ BoundToOther(definitionsByName, N, id)
              => /\ MapGet(definitionsByName', N) = MapGet(definitionsByName, N)
                 /\ TwoDiagnostics(N, MapGet(definitionsByName, N).id, id)
           /\ ~MapHas(definitionsByName, N) => Bound(definitionsByName', N, id)

\* P holds of the batch of every import of all names the step may be.
ImportAllSteps(P(_)) ==
    Did("enterImport") =>
        \A m \in Names, q \in OptNames :
            LET decl == ImportDecl(ndecls, m, <<"*">>, q)
            IN (Found(decl) /\ enterImport(m, <<"*">>, q)) => P(ImportBatch(decl))

ExportAllSteps(P(_)) ==
    Did("enterExport") =>
        \A m \in Names, q \in OptNames :
            LET decl == ExportDecl(ndecls, m, <<"*">>, q)
            IN (Found(decl) /\ enterExport(m, <<"*">>, q)) => P(ExportBatch(decl))

InstanceSteps(P(_)) ==
    Did("enterInstance") =>
        \A m \in Names, q \in OptNames, o \in ParamLists :
            LET decl == InstanceDecl(ndecls, m, q, o)
            IN (Found(decl) /\ enterInstance(m, q, o)) => P(InstanceBatch(decl))

\* C2: first writer wins in the batch form: when an import, export or
\* instance of all names brings an identifier N the current table binds to
\* a definition with a different id, the existing entry for N is retained,
\* two diagnostics are recorded for it, and the other names of the batch
\* are installed.
C2_BatchFirstWriterWins ==
    [][/\ ImportAllSteps(FirstWriterWins)
       /\ ExportAllSteps(FirstWriterWins)
       /\ InstanceSteps(FirstWriterWins)]_vars

\* The entry of a same-id re-collection is exactly what it was.
SameIdUnchanged(newDefs) ==
    \A i \in 1..Len(newDefs) :
        LET N == newDefs[i].key
        IN Bound(definitionsByName, N, newDefs[i].def.id)
           => /\ MapGet(definitionsByName', N) = MapGet(definitionsByName, N)
              /\ \A j \in 1..Len(NewErrors) : ~About(NewErrors[j], N)

\* C3: idempotence: collecting a definition whose identifier is already
\* bound to a definition with the same id, by collectDefinition (directly
\* or through a single-name import or export) or by the batch form, leaves
\* the table unchanged and appends no diagnostic.
C3_SameIdTableUnchanged ==
    [][/\ \A def \in AllDefs :
            (Bound(definitionsByName, <<def.name>>, CollectedId(def)) /\ DirectCollect(def))
            => definitionsByName' = definitionsByName /\ errors' = errors
       /\ Did("enterImport") =>
            \A m \in Names, d \in DefNames, q \in OptNames :
                LET decl == ImportDecl(ndecls, m, <<d>>, q)
                IN (/\ Found(decl)
                    /\ MapHas(ImportBatch(decl), <<d>>)
                    /\ Bound(definitionsByName, <<d>>, MapGet(ImportBatch(decl), <<d>>).id)
                    /\ enterImport(m, <<d>>, q))
                   => definitionsByName' = definitionsByName /\ errors' = errors
       /\ Did("enterExport") =>
            \A m \in Names, d \in DefNames, q \in OptNames :
                LET decl == ExportDecl(ndecls, m, <<d>>, q)
                IN (/\ Found(decl)
                    /\ MapHas(ExportBatch(decl), <<d>>)
                    /\ Bound(definitionsByName, <<d>>, MapGet(ExportBatch(decl), <<d>>).id)
                    /\ enterExport(m, <<d>>, q))
                   => definitionsByName' = definitionsByName /\ errors' = errors
       /\ ImportAllSteps(SameIdUnchanged)
       /\ ExportAllSteps(SameIdUnchanged)
       /\ InstanceSteps(SameIdUnchanged)]_vars

\* C4: after `instance M as I(c = e)` of a registered module M with a
\* constant c, processed in another module, the entry of I::c, and of bare
\* c where it is bound, has e's id and not c's original id, and every other
\* name of M keeps its original id under I.
C4_InstanceOverride ==
    [][Did("enterInstance") =>
         \A m \in Names, I \in Qualifiers, c \in ParamNames :
             LET decl == InstanceDecl(ndecls, m, <<I>>, <<c>>)
                 M == MapGet(definitionsByModule, m)
                 e == decl.overrides[1].ex
             IN (/\ Found(decl)
                 /\ MapHas(M, <<c>>)
                 /\ MapGet(M, <<c>>).kind = "const"
                 /\ enterInstance(m, <<I>>, <<c>>))
                => /\ Bound(definitionsByName', <<I, c>>, e.id)
                   /\ e.id # MapGet(M, <<c>>).id
                   /\ MapHas(definitionsByName', <<c>>)
                        => MapGet(definitionsByName', <<c>>).id = e.id
                   /\ \A i \in 1..Len(M) :
                        M[i].key # <<c>>
                        => Bound(definitionsByName', <<I>> \o M[i].key, M[i].def.id)]_vars

\* An instance with a successful override has just been processed.
C4_Witness ==
    /\ last.op = "enterInstance" /\ last.case = "batch"
    /\ \E I \in Qualifiers, c \in ParamNames :
         Bound(definitionsByName, <<I, c>>, ExprId(ndecls - 1, 1))

\* Of every import, export or instance declaration the step may be, and for
\* which Pre holds before it, Post holds.
DeclSteps(Pre(_), Post(_)) ==
    /\ Did("enterImport") =>
         \A m \in Names, d \in OptDefNames, q \in OptNames :
             LET decl == ImportDecl(ndecls, m, d, q)
             IN (Pre(decl) /\ enterImport(m, d, q)) => Post(decl)
    /\ Did("enterExport") =>
         \A m \in Names, d \in OptDefNames, q \in OptNames :
             LET decl == ExportDecl(ndecls, m, d, q)
             IN (Pre(decl) /\ enterExport(m, d, q)) => Post(decl)
    /\ Did("enterInstance") =>
         \A m \in Names, q \in OptNames, o \in ParamLists :
             LET decl == InstanceDecl(ndecls, m, q, o)
             IN (Pre(decl) /\ enterInstance(m, q, o)) => Post(decl)

SelfReference(decl) == decl.protoName = currentModuleName

OnlySelfReferenceError(decl) ==
    /\ errors' = Append(errors, selfReferenceError(decl))
    /\ definitionsByName' = definitionsByName
    /\ definitionsByModule' = definitionsByModule

\* C5: an import, export or instance declaration whose target is the module
\* being processed appends exactly one self-reference diagnostic and changes
\* neither the current table nor the registry.
C5_SelfReference == [][DeclSteps(SelfReference, OnlySelfReferenceError)]_vars

C5_Witness ==
    /\ last.case = "self"
    /\ errors # <<>>
    /\ errors[Len(errors)].code = "SELF-REFERENCE"

NoBuiltinEntry ==
    \A key \in builtinNames :
        /\ ~MapHas(definitionsByName, key)
        /\ \A i \in 1..Len(definitionsByModule) : ~MapHas(definitionsByModule[i].def, key)

\* C6: collecting a definition whose identifier is a built-in name appends
\* one built-in redefinition diagnostic referencing the new definition and
\* none referencing a prior source, and no table, current or registered,
\* ever has an entry under a built-in name.
C6_BuiltinShadow ==
    [][/\ \A def \in AllDefs :
            (<<def.name>> \in builtinNames /\ DirectCollect(def))
            => /\ errors' = Append(errors,
                     [code |-> "QNT101",
                      message |-> <<"Built-in name is redefined", <<def.name>>,
                                    currentModuleName>>,
                      reference |-> CollectedId(def)])
               /\ definitionsByName' = definitionsByName
       /\ NoBuiltinEntry']_vars

C6_Witness ==
    /\ last.case = "builtin"
    /\ errors # <<>>
    /\ errors[Len(errors)].message[1] = "Built-in name is redefined"

NoConflictDiagnostic(errs) == \A j \in 1..Len(errs) : errs[j].code # "QNT101"

\* C7: with module Bank holding only `const x` (id 1) and module Client
\* doing `import Bank.* as B` and then `instance Bank as B2(x = e)`, the
\* table of Client binds B::x to id 1 and B2::x to e's id, and no conflict
\* diagnostic is recorded for Client.
C7_ImportAndInstanceCoexist ==
    [][Did("enterInstance") =>
         \A Bank \in Names, B \in Qualifiers, B2 \in Qualifiers :
             LET import == ImportDecl(ndecls - 1, Bank, <<"*">>, <<B>>)
                 instance == InstanceDecl(ndecls, Bank, <<B2>>, <<"x">>)
             IN (/\ B # B2
                 /\ last.op = "enterImport"
                 /\ errors = <<>>
                 /\ Found(instance)
                 /\ MapGet(definitionsByModule, Bank) = <<[key |-> <<"x">>, def |-> ToLookup(ConstX)]>>
                 /\ definitionsByName =
                      ImportResult(<<>>, definitionsByModule, <<>>, currentModuleName, import).table
                 /\ enterInstance(Bank, <<B2>>, <<"x">>))
                => /\ Bound(definitionsByName', <<B, "x">>, ConstX.id)
                   /\ Bound(definitionsByName', <<B2, "x">>, instance.overrides[1].ex.id)
                   /\ NoConflictDiagnostic(errors')]_vars

\* The outcome of `import A.* as Q` followed by `import B.* as R` in an
\* empty module, from the registry of the current state.
TwoImports(A, Q, B, R) ==
    LET first == ImportResult(<<>>, definitionsByModule, <<>>, currentModuleName,
                              ImportDecl(ndecls, A, <<"*">>, <<Q>>))
    IN ImportResult(first.table, first.registry, first.errors, currentModuleName,
                    ImportDecl(ndecls + 1, B, <<"*">>, <<R>>))

\* The number of names `import m.* as q` makes visible.
VisibleNames(m, q) == Len(copyNames(MapGet(definitionsByModule, m), <<q>>, TRUE))

\* C8: for registered modules A and B that share no name and qualifiers Q
\* and R that differ, `import A.* as Q` followed by `import B.* as R` in an
\* otherwise empty module yields a table with as many entries as A and B
\* have visible names together, and no conflict diagnostic.
C8_TwoImportsCount ==
    \A A \in Names, B \in Names, Q \in Qualifiers, R \in Qualifiers :
        (/\ AtTopLevel
         /\ Q # R
         /\ A # currentModuleName /\ B # currentModuleName
         /\ MapHas(definitionsByModule, A) /\ MapHas(definitionsByModule, B)
         /\ Keys(MapGet(definitionsByModule, A)) \cap Keys(MapGet(definitionsByModule, B)) = {})
        => /\ Len(TwoImports(A, Q, B, R).table) = VisibleNames(A, Q) + VisibleNames(B, R)
           /\ NoConflictDiagnostic(TwoImports(A, Q, B, R).errors)

NameAbsent(decl) ==
    /\ Found(decl)
    /\ decl.defName \notin {<<>>, <<"*">>}
    /\ \/ decl.kind = "import" /\ ~MapHas(ImportBatch(decl), decl.defName)
       \/ decl.kind = "export" /\ ~MapHas(ExportBatch(decl), decl.defName)

OnlyNameNotFoundError(decl) ==
    /\ errors' = Append(errors, nameNotFoundError(decl))
    /\ definitionsByName' = definitionsByName

\* C9: a single-name import or export of a name absent from the importable
\* or exportable set of the module appends exactly one name-not-found
\* diagnostic and leaves every key of the current table as it was.
C9_NameNotFound == [][DeclSteps(NameAbsent, OnlyNameNotFoundError)]_vars

C9_Witness ==
    /\ last.case = "noname"
    /\ errors # <<>>
    /\ errors[Len(errors)].code = "NAME-NOT-FOUND"

NotRegistered(decl) == ~MapHas(definitionsByModule, decl.protoName)

NotRegisteredOther(decl) == NotRegistered(decl) /\ decl.protoName # currentModuleName

OnlyModuleNotFoundError(decl) ==
    /\ errors' = Append(errors, moduleNotFoundError(decl))
    /\ definitionsByName' = definitionsByName
    /\ definitionsByModule' = definitionsByModule

\* C10 as stated: an import, export or instance declaration naming a module
\* that is not a key of the registry at that point appends exactly one
\* module-not-found diagnostic and changes neither the current table nor
\* the registry.
C10_ModuleNotFound == [][DeclSteps(NotRegistered, OnlyModuleNotFoundError)]_vars

\* C10 amended: the same of a declaration naming a module, other than the
\* module being processed, that is not a key of the registry at that point.
C10_ModuleNotFoundOther == [][DeclSteps(NotRegisteredOther, OnlyModuleNotFoundError)]_vars

C10_Witness ==
    /\ last.case = "nomodule"
    /\ errors # <<>>
    /\ errors[Len(errors)].code = "MODULE-NOT-FOUND"

\* The number of diagnostics with the given code the step appended.
Appended(code) == Cardinality({j \in 1..Len(NewErrors) : NewErrors[j].code = code})

\* The key under which an instance with qualifier q installs the name p.
InstanceKey(q, p) == q \o <<p>>

\* C11: for the override (p, e) of an instance of a registered module M: if
\* p is not a key of M's table exactly one param-not-found diagnostic is
\* appended; if p is a key whose definition is not a const exactly one
\* param-not-const diagnostic is appended and the entry keeps its id, in the
\* current table and in the table published under the qualifier; the entry
\* gets e's id only when p exists and is a const.
C11_OverrideErrors ==
    [][Did("enterInstance") =>
         \A m \in Names, q \in OptNames, p \in ParamNames :
             LET decl == InstanceDecl(ndecls, m, q, <<p>>)
                 M == MapGet(definitionsByModule, m)
                 e == decl.overrides[1].ex
                 exists == MapHas(M, <<p>>)
                 isConst == exists /\ MapGet(M, <<p>>).kind = "const"
             IN (Found(decl) /\ enterInstance(m, q, <<p>>))
                => /\ ErrorsKept
                   /\ Appended("PARAM-NOT-FOUND") = IF exists THEN 0 ELSE 1
                   /\ Appended("PARAM-NOT-CONST") = IF exists /\ ~isConst THEN 1 ELSE 0
                   /\ ~exists => NewErrors[1] = paramNotFoundError(decl, p)
                   /\ (exists /\ ~isConst)
                        => /\ NewErrors[1] = paramIsNotAConstantError(decl, p)
                           /\ Bound(definitionsByName', InstanceKey(q, p), MapGet(M, <<p>>).id)
                           /\ q # <<>> => Bound(MapGet(definitionsByModule', q[1]), <<p>>,
                                                MapGet(M, <<p>>).id)
                   /\ Bound(definitionsByName', InstanceKey(q, p), e.id) <=> isConst]_vars

\* An instance whose override names a definition that is not a const has
\* just been processed, and the name is installed under the qualifier.
C11_Witness ==
    /\ last.op = "enterInstance" /\ last.case = "batch"
    /\ \E j \in 1..Len(errors) : errors[j].code = "PARAM-NOT-CONST"
    /\ \E q \in Qualifiers, p \in ParamNames :
         /\ MapHas(definitionsByName, <<q, p>>)
         /\ MapGet(definitionsByName, <<q, p>>).kind = "def"

\* The diagnostics a handler records when it rejects a declaration.
DeclarationErrors ==
    {"SELF-REFERENCE", "MODULE-NOT-FOUND", "NAME-NOT-FOUND", "PARAM-NOT-FOUND", "PARAM-NOT-CONST"}

\* C12: an import, export or instance declaration for which an error is
\* detected has no effect on the tables; in particular an instance for which
\* a param-not-found or param-not-const diagnostic is recorded adds no name
\* to the current table and publishes nothing in the registry.
C12_ErrorNoEffect ==
    [][(/\ last'.op \in {"enterImport", "enterExport", "enterInstance"}
        /\ \E j \in 1..Len(NewErrors) : NewErrors[j].code \in DeclarationErrors)
       => /\ definitionsByName' = definitionsByName
          /\ definitionsByModule' = definitionsByModule]_vars

\* The category of a diagnostic of the collector, by its message.
ModuleRedefinition(e) == e.message[1] = "Module was already defined"
NameConflict(e) == e.message[1] = "Conflicting definitions found for name"
BuiltinShadow(e) == e.message[1] = "Built-in name is redefined"

\* C13: the diagnostics for a module redefinition, for a conflict between
\* two user definitions and for a definition shadowing a built-in name carry
\* pairwise distinct codes.
C13_DistinctCodes ==
    \A i \in 1..Len(errors), j \in 1..Len(errors) :
        (\/ ModuleRedefinition(errors[i]) /\ NameConflict(errors[j])
         \/ ModuleRedefinition(errors[i]) /\ BuiltinShadow(errors[j])
         \/ NameConflict(errors[i]) /\ BuiltinShadow(errors[j]))
        => errors[i].code # errors[j].code

\* C14: entering a module whose name is already a key of the registry
\* appends exactly one module-redefinition diagnostic referencing the
\* module's id and starts from an empty table; on exit the module's table
\* replaces the registry entry under its name and no other entry changes.
C14_ModuleRedefinition ==
    [][/\ Did("enterModule") =>
            \A name \in Names :
                (MapHas(definitionsByModule, name) /\ enterModule(name))
                => /\ errors' = Append(errors,
                         [code |-> "QNT102",
                          message |-> <<"Module was already defined", name>>,
                          reference |-> ModuleId(nmods)])
                   /\ definitionsByName' = <<>>
                   /\ definitionsByModule' = definitionsByModule
       /\ (Did("exitModule") /\ exitModule)
            => /\ MapHas(definitionsByModule', currentModuleName)
               /\ MapGet(definitionsByModule', currentModuleName) = definitionsByName
               /\ Keys(definitionsByModule') = Keys(definitionsByModule) \cup {currentModuleName}
               /\ \A i \in 1..Len(definitionsByModule) :
                    definitionsByModule[i].key # currentModuleName
                    => MapGet(definitionsByModule', definitionsByModule[i].key)
                         = definitionsByModule[i].def]_vars

\* A module entered as a redefinition has been processed and has exited
\* with a table of its own.
C14_Witness ==
    /\ last.op = "exitModule"
    /\ definitionsByName # <<>>
    /\ \E j \in 1..Len(errors) :
         errors[j].code = "QNT102" /\ errors[j].message[2] = currentModuleName
    /\ MapGet(definitionsByModule, currentModuleName) = definitionsByName

\* C15: an export processed inside a module does not change what lookups
\* made inside it return: for every identifier getDefinition returns after
\* the export what it returned before.
C15_ExportKeepsLookups ==
    [][Did("enterExport") =>
         \A identifier \in Keys(definitionsByName) \cup Keys(definitionsByName') :
             getDefinition(identifier)' = getDefinition(identifier)]_vars

NoUnderscoreEntry ==
    /\ ~MapHas(definitionsByName, <<"_">>)
    /\ \A i \in 1..Len(definitionsByModule) : ~MapHas(definitionsByModule[i].def, <<"_">>)

\* C16: the identifier `_` is never collected: collecting a definition
\* named `_` changes neither the table nor the error list, and no table,
\* current or registered, ever has the key `_`.
C16_UnderscoreNeverCollected ==
    [][/\ \A def \in AllDefs :
            (def.name = "_" /\ DirectCollect(def))
            => definitionsByName' = definitionsByName /\ errors' = errors
       /\ NoUnderscoreEntry']_vars

\* A definition named `_` has been collected, more than once.
C16_Witness ==
    /\ last.case = "underscore"
    /\ ndecls >= 2
    /\ definitionsByName = <<>>
    /\ errors = <<>>

\* The names that are never declared as qualifiers: a registry entry under
\* one of them was stored by exitModule.
ModuleOnlyNames == Names \ Qualifiers

\* C17: a module's table is frozen once published: no step other than the
\* exit of a module of the same name changes the registry entry exitModule
\* stored for M.
C17_PublishedTableFrozen ==
    [][\A M \in ModuleOnlyNames :
         (MapHas(definitionsByModule, M) /\ ~(Did("exitModule") /\ currentModuleName = M))
         => /\ MapHas(definitionsByModule', M)
            /\ MapGet(definitionsByModule', M) = MapGet(definitionsByModule, M)]_vars

ImportOrInstanceOfRegistered(decl) == decl.kind # "export" /\ Found(decl)

OriginUnchanged(decl) ==
    /\ MapHas(definitionsByModule', decl.protoName)
    /\ MapGet(definitionsByModule', decl.protoName) = MapGet(definitionsByModule, decl.protoName)

\* C18: copies are independent of their origin: whatever the qualifier, an
\* import or an instance of a registered module M leaves the registry entry
\* of M unchanged.
C18_OriginUnchanged == [][DeclSteps(ImportOrInstanceOfRegistered, OriginUnchanged)]_vars

NoModuleRedefinition(errs) == \A j \in 1..Len(errs) : errs[j].code # "QNT102"

\* C19: registry entries are write-once per key: as long as no
\* module-redefinition diagnostic is recorded, no module exit and no import,
\* export or instance declaration replaces the table of a key the registry
\* already holds.
C19_RegistryWriteOnce ==
    [][(/\ last'.op \in {"enterModule", "exitModule", "enterImport", "enterExport",
                        "enterInstance"}
        /\ NoModuleRedefinition(errors'))
       => \A i \in 1..Len(definitionsByModule) :
            /\ MapHas(definitionsByModule', definitionsByModule[i].key)
            /\ MapGet(definitionsByModule', definitionsByModule[i].key)
                 = definitionsByModule[i].def]_vars

\* C20: only information of open documents is kept: from the close event
\* of a document to its next content change, parsedDataByDocument,
\* docsByDocument and inferredDataByDocument hold no entry for its uri.
C20_OnlyOpenDocumentsKept ==
    \A uri \in Uris :
        uri \notin documents
        => /\ parsedDataByDocument[uri] = <<>>
           /\ docsByDocument[uri] = <<>>
           /\ inferredDataByDocument[uri] = <<>>

\* The operation the last call wrapErrorBin applied to valid operands.
UnsafeResult(lhs, rhs) ==
    CASE applied = "absDiff" -> absDiffUnsafe(lhs, rhs)
      [] applied = "checkedAdd" -> checkedAddUnsafe(lhs, rhs)
      [] applied = "checkedSub" -> checkedSubUnsafe(lhs, rhs)
      [] applied = "checkedMul" -> checkedMulUnsafe(lhs, rhs)
      [] applied \in {"checkedDiv", "wrappingDiv"} -> checkedDivUnsafe(lhs, rhs)
      [] applied \in {"checkedRem", "wrappingRem"} -> checkedRemUnsafe(lhs, rhs)
      [] applied = "checkedPow" -> checkedPowUnsafe(lhs, rhs)
      [] applied = "saturatingAdd" -> saturatingAddUnsafe(lhs, rhs)
      [] applied = "saturatingSub" -> saturatingSubUnsafe(lhs, rhs)
      [] applied = "saturatingMul" -> saturatingMulUnsafe(lhs, rhs)
      [] applied = "saturatingPow" -> saturatingPowUnsafe(lhs, rhs)
      [] applied = "wrappingAdd" -> wrappingAddUnsafe(lhs, rhs)
      [] applied = "wrappingSub" -> wrappingSubUnsafe(lhs, rhs)
      [] applied = "wrappingMul" -> wrappingMulUnsafe(lhs, rhs)
      [] applied = "wrappingPow" -> wrappingPowUnsafe(lhs, rhs)

\* The value is UInt(x) for an x outside the interval.
OutOfRangeUInt(u) == ~isInRange(u) /\ u = UInt(u.v)

\* C21: every binary operation built on wrapErrorBin returns its left
\* operand when that is not valid, else its right operand when that is not
\* valid, else the result of the operation; so a call with UInt(x), x
\* outside the interval, and a valid operand returns the error "out of range".
C21_InvalidOperandsPropagate ==
    applied # "none" =>
        /\ opResult = IF ~isValid(opLhs) THEN opLhs
                      ELSE IF ~isValid(opRhs) THEN opRhs
                      ELSE UnsafeResult(opLhs, opRhs)
        /\ (OutOfRangeUInt(opLhs) /\ isValid(opRhs)) => opResult.error = "out of range"
        /\ (isValid(opLhs) /\ OutOfRangeUInt(opRhs)) => opResult.error = "out of range"

\* An absolute difference of an out-of-range left operand has been computed.
C21_Witness ==
    /\ applied = "absDiff"
    /\ OutOfRangeUInt(opLhs)
    /\ isValid(opRhs)
    /\ opResult = opLhs

ValidOperands == isValid(opLhs) /\ isValid(opRhs)

\* C22: for valid operands checkedAdd, checkedSub and checkedMul return the
\* exact result in v, the error "overflow" exactly when the sum or the
\* product exceeds MAX, "underflow" exactly when the difference is below
\* MIN, and the empty error otherwise.
C22_CheckedExact ==
    ValidOperands =>
        /\ applied = "checkedAdd" =>
             opResult = [v |-> opLhs.v + opRhs.v,
                         error |-> IF opLhs.v + opRhs.v > MAX THEN "overflow" ELSE ""]
        /\ applied = "checkedSub" =>
             opResult = [v |-> opLhs.v - opRhs.v,
                         error |-> IF opLhs.v - opRhs.v < MIN THEN "underflow" ELSE ""]
        /\ applied = "checkedMul" =>
             opResult = [v |-> opLhs.v * opRhs.v,
                         error |-> IF opLhs.v * opRhs.v > MAX THEN "overflow" ELSE ""]

\* A checked addition of valid operands whose sum is MAX, and so does not overflow.
C22_Witness ==
    /\ applied = "checkedAdd"
    /\ ValidOperands
    /\ opLhs.v > 0 /\ opRhs.v > 0
    /\ opResult = [v |-> MAX, error |-> ""]

Clamped(x) == IF x > MAX THEN MAX ELSE IF x < MIN THEN MIN ELSE x

\* C23: for valid operands saturatingAdd, saturatingSub and saturatingMul
\* return a valid value whose v is the exact result clamped to [MIN, MAX].
C23_SaturatingClamped ==
    ValidOperands =>
        /\ applied = "saturatingAdd" =>
             isValid(opResult) /\ opResult.v = Clamped(opLhs.v + opRhs.v)
        /\ applied = "saturatingSub" =>
             isValid(opResult) /\ opResult.v = Clamped(opLhs.v - opRhs.v)
        /\ applied = "saturatingMul" =>
             isValid(opResult) /\ opResult.v = Clamped(opLhs.v * opRhs.v)

\* A saturating subtraction of a larger value from a smaller one.
C23_Witness ==
    /\ applied = "saturatingSub"
    /\ ValidOperands
    /\ opLhs.v < opRhs.v
    /\ opResult = [v |-> MIN, error |-> ""]

\* C24: for valid operands wrappingAdd, wrappingSub and wrappingMul return
\* the empty error and v equal to the exact result modulo 2^BITS, with
\* 0 <= v <= MAX; wrappingSub(0, 1) = MAX and wrappingAdd(MAX, 1) = 0.
C24_WrappingModulo ==
    ValidOperands =>
        /\ applied = "wrappingAdd" =>
             /\ opResult = [v |-> (opLhs.v + opRhs.v) % (2^BITS), error |-> ""]
             /\ (opLhs.v = MAX /\ opRhs.v = 1) => opResult.v = 0
        /\ applied = "wrappingSub" =>
             /\ opResult = [v |-> (opLhs.v - opRhs.v) % (2^BITS), error |-> ""]
             /\ (opLhs.v = 0 /\ opRhs.v = 1) => opResult.v = MAX
        /\ applied = "wrappingMul" =>
             opResult = [v |-> (opLhs.v * opRhs.v) % (2^BITS), error |-> ""]
        /\ applied \in {"wrappingAdd", "wrappingSub", "wrappingMul"} =>
             0 <= opResult.v /\ opResult.v <= MAX

\* wrappingSub(0, 1) has been computed.
C24_Witness ==
    /\ applied = "wrappingSub"
    /\ opLhs = UInt(0)
    /\ opRhs = UInt(1)
    /\ opResult = [v |-> MAX, error |-> ""]

\* The names a later `export Q.*` and `import Q.*` of the qualifier bring,
\* from the registry the step leaves.
LaterExportBatch(Q) == copyNames(MapGet(definitionsByModule', Q), <<Q>>, FALSE)

LaterImportBatch(Q) == copyNames(MapGet(definitionsByModule', Q), <<Q>>, TRUE)

\* C25: after `instance M as Q(c = e)` of a registered module M with a
\* constant c, the registry entry under Q binds c to e's id and not to c's
\* original id, and a later `export Q.*` or `import Q.*`, in a module other
\* than one named Q, brings Q::c with e's id.
C25_InstancePublishesOverrides ==
    [][Did("enterInstance") =>
         \A m \in Names, Q \in Qualifiers, c \in ParamNames :
             LET decl == InstanceDecl(ndecls, m, <<Q>>, <<c>>)
                 M == MapGet(definitionsByModule, m)
                 e == decl.overrides[1].ex
             IN (/\ Found(decl)
                 /\ MapHas(M, <<c>>)
                 /\ MapGet(M, <<c>>).kind = "const"
                 /\ enterInstance(m, <<Q>>, <<c>>))
                => /\ MapHas(definitionsByModule', Q)
                   /\ Bound(MapGet(definitionsByModule', Q), <<c>>, e.id)
                   /\ e.id # MapGet(M, <<c>>).id
                   /\ Q # currentModuleName
                        => /\ Bound(LaterExportBatch(Q), <<Q, c>>, e.id)
                           /\ Bound(LaterImportBatch(Q), <<Q, c>>, e.id)
                           /\ Bound(LaterImportBatch(Q), <<c>>, e.id)]_vars

\* An instance with a qualifier and a successful override has just been
\* processed, in a module not named like the qualifier.
C25_Witness ==
    /\ last.op = "enterInstance" /\ last.case = "batch"
    /\ \E Q \in Qualifiers, c \in ParamNames :
         /\ Q # currentModuleName
         /\ MapHas(definitionsByModule, Q)
         /\ Bound(MapGet(definitionsByModule, Q), <<c>>, ExprId(ndecls - 1, 1))

\* The entry of the table is the record of a top-level operator definition:
\* the id and the name of the definition, depth 0 and no type annotation.
TopLevelRecord(table, def, id) ==
    /\ MapHas(table, <<def.name>>)
    /\ MapGet(table, <<def.name>>).id = id
    /\ MapGet(table, <<def.name>>).name = def.name
    /\ MapGet(table, <<def.name>>).kind = def.kind
    /\ MapGet(table, <<def.name>>).depth = <<0>>
    /\ MapGet(table, <<def.name>>).typeAnnotation = FALSE

\* C26: an operator definition entered at a depth other than 0 changes
\* neither the table nor the diagnostics; one entered at depth 0 is handed
\* to collectDefinition: its name is bound to a record with its id and name,
\* depth 0 and no type annotation, or, the name being bound to a definition
\* with another id, the conflict is recorded.
C26_OpDefOnlyAtDepthZero ==
    [][Did("enterOpDef") =>
         \A def \in Defs :
             enterOpDef(def) =>
                 LET id == Node(def, ndecls).id
                 IN IF definitionDepth' # 0
                    THEN definitionsByName' = definitionsByName /\ errors' = errors
                    ELSE IF BoundToOther(definitionsByName, <<def.name>>, id)
                    THEN Len(NewErrors) = 2 /\ NewErrors[2].reference = id
                    ELSE /\ TopLevelRecord(definitionsByName', def, id)
                         /\ errors' = errors]_vars

\* A nested operator definition has been entered inside a top-level one
\* that was collected.
C26_Witness ==
    /\ last = [op |-> "enterOpDef", case |-> "nested"]
    /\ definitionDepth = 1
    /\ Len(definitionsByName) = 1
    /\ \E n \in 0..MaxDecls : TopLevelRecord(definitionsByName, DefY, Node(DefY, n).id)

\* The definition a single-name import or export brings, if any.
Brought(decl) ==
    IF decl.kind = "import" THEN ImportBatch(decl) ELSE ExportBatch(decl)

\* The declaration is a single-name import or export of a name the module
\* offers, and the current table binds that name to a definition with
\* another id.
SingleNameConflict(decl) ==
    /\ decl.kind \in {"import", "export"}
    /\ decl.defName \notin {<<>>, <<"*">>}
    /\ Found(decl)
    /\ MapHas(Brought(decl), decl.defName)
    /\ BoundToOther(definitionsByName, decl.defName, MapGet(Brought(decl), decl.defName).id)

ReferencesBothDefinitions(decl) ==
    \E i \in 1..Len(NewErrors), j \in 1..Len(NewErrors) :
        /\ i # j
        /\ NewErrors[i].reference = MapGet(definitionsByName, decl.defName).id
        /\ NewErrors[j].reference = MapGet(Brought(decl), decl.defName).id

\* C27: when a single-name import or export brings a definition whose
\* identifier the current table binds to a definition with a different id,
\* two of the diagnostics recorded reference the two definitions: one the
\* id of the existing definition, the other the id of the new one.
C27_SingleNameConflictReferences ==
    [][DeclSteps(SingleNameConflict, ReferencesBothDefinitions)]_vars

\* C28: entering a module whose name differs from the names of all the
\* modules entered before it records no module-redefinition diagnostic,
\* also when an earlier import or instance declared a qualifier equal to
\* that name.
C28_RedefinitionOnlyForModules ==
    [][Did("enterModule") =>
         \A name \in Names :
             (name \notin moduleNames /\ enterModule(name)) => Appended("QNT102") = 0]_vars

\* The content of a table: which identifier is bound to which definition.
Content(table) == {<<table[i].key, table[i].def.id>> : i \in 1..Len(table)}

\* collectDefinitions of the batch of `first` and then of the batch of
\* `second`, two imports of all names, from the current table.
CollectInOrder(first, second) ==
    LET one == collectDefinitions(definitionsByName, errors, currentModuleName,
                                  ImportBatch(first), <<first>>)
    IN collectDefinitions(one.table, one.errors, currentModuleName,
                          ImportBatch(second), <<second>>)

IsPrefix(short, long) == Len(short) <= Len(long) /\ SubSeq(long, 1, Len(short)) = short

\* C29: for the current table and the batches of two imports of all names
\* of registered modules, collectDefinitions applied to the two batches in
\* either order leaves the same table content, and the diagnostics of the
\* batch applied first come first.
C29_OrderIndependent ==
    \A m1 \in Names, m2 \in Names, q1 \in Qualifiers, q2 \in Qualifiers :
        (/\ AtTopLevel
         /\ m1 # m2
         /\ m1 # currentModuleName /\ m2 # currentModuleName
         /\ MapHas(definitionsByModule, m1) /\ MapHas(definitionsByModule, m2))
        => LET a == ImportDecl(ndecls, m1, <<"*">>, <<q1>>)
               b == ImportDecl(ndecls + 1, m2, <<"*">>, <<q2>>)
           IN /\ Content(CollectInOrder(a, b).table) = Content(CollectInOrder(b, a).table)
              /\ IsPrefix(collectDefinitions(definitionsByName, errors, currentModuleName,
                                             ImportBatch(a), <<a>>).errors,
                          CollectInOrder(a, b).errors)

\* The sendDiagnostics calls made for the content-change event `version`.
SentFor(version) == {i \in 1..Len(sentDiagnostics) : sentDiagnostics[i].version = version}

\* A callback of the content-change event `version` is ready or waits for
\* its check.
InProgress(version) ==
    \/ \E i \in 1..Len(microtasks) : microtasks[i].version = version
    \/ \E job \in pendingChecks : job.version = version

\* Diagnostics are sent at most once for an event, and once when its
\* callbacks have run.
SentOncePerChange ==
    \A version \in 1..nchanges :
        /\ Cardinality(SentFor(version)) <= 1
        /\ ~InProgress(version) => Cardinality(SentFor(version)) = 1

\* After the empty list was sent for an event of a document, no diagnostics
\* of an earlier event of that document are sent.
SuccessNotOverwritten ==
    \A i \in 1..Len(sentDiagnostics), j \in 1..Len(sentDiagnostics) :
        (/\ i < j
         /\ sentDiagnostics[i].uri = sentDiagnostics[j].uri
         /\ sentDiagnostics[i].diagnostics = "none"
         /\ sentDiagnostics[j].diagnostics # "none")
        => sentDiagnostics[j].version > sentDiagnostics[i].version

\* C30: for each content-change event of a document diagnostics are sent
\* for its uri exactly once, and the empty list sent for an event is never
\* followed by the diagnostics of an earlier event of the same document.
C30_DiagnosticsOncePerChange == SentOncePerChange /\ SuccessNotOverwritten


\* The diagnostic carries the message of a conflict between two definitions.
ConflictingMessage(e) == e.message[1] = "Conflicting definitions found for name"

\* C31: the diagnostics recorded for a conflict between two user definitions
\* do not depend on the id values: for every existing id, 0 included,
\* recordConflict appends the diagnostic referencing the existing definition
\* and then the one referencing the new definition, both with the
\* conflicting-definitions message and never the built-in one.
C31_ConflictIndependentOfIds ==
    [][\A def \in AllDefs :
         (BoundToOther(definitionsByName, <<def.name>>, CollectedId(def)) /\ DirectCollect(def))
         => /\ Len(NewErrors) = 2
            /\ \A j \in 1..Len(NewErrors) : ConflictingMessage(NewErrors[j])
            /\ NewErrors[1].reference = MapGet(definitionsByName, <<def.name>>).id]_vars


\* No callback of a content change is ready or waiting for its check.
ProcessingCompleted == Idle /\ pendingChecks = {}

\* The inferred data kept for the uri was computed from the module of the
\* parsed data kept for it.
InferredFromParsed(uri) == inferredDataByDocument[uri] = parsedDataByDocument[uri]

\* C32: after the processing of every content change has completed, whenever
\* parsedDataByDocument and inferredDataByDocument both hold an entry for a
\* uri, the inferred data was computed from the module of the parsed entry
\* (the same document version), also after a change whose check failed.
C32_InferredMatchesParsed ==
    ProcessingCompleted =>
        \A uri \in Uris :
            (parsedDataByDocument[uri] # <<>> /\ inferredDataByDocument[uri] # <<>>)
            => InferredFromParsed(uri)


\* The position of the enterArrowEffect matching the exitArrowEffect at
\* position n of the events.
MatchingEnter(evs, n) ==
    CHOOSE m \in 1..(n - 1) :
        /\ evs[m].kind = "enterArrowEffect"
        /\ Depth(evs, m - 1) = Depth(evs, n)
        /\ \A j \in m..(n - 1) : Depth(evs, j) > Depth(evs, n)

\* The position of the enterArrowEffect that opened the level k still open.
OpenEnter(evs, k) ==
    CHOOSE m \in 1..Len(evs) :
        /\ evs[m].kind = "enterArrowEffect"
        /\ Depth(evs, m) = k
        /\ \A j \in m..Len(evs) : Depth(evs, j) >= k

\* The effects completed after the enterArrowEffect at position m and before
\* position n, at the nesting level of that arrow, in order.
CompletedAtLevel(evs, m, n) ==
    LET between == [j \in 1..(n - 1 - m) |-> m + j]
        atLevel == SelectSeq(between,
                             LAMBDA j : evs[j].kind \in Completing /\ Depth(evs, j) = Depth(evs, m))
    IN [k \in 1..Len(atLevel) |-> evs[atLevel[k]].effect[1]]

\* C33: for every well-nested sequence of listener events, the effect stack
\* is as deep as the number of open arrow effects (an exitArrowEffect brings
\* it back to the depth before the matching enterArrowEffect), every open
\* level holds exactly the effects completed at that level since its
\* enterArrowEffect, in order (a nested arrow is one component of its
\* parent), and after an exitArrowEffect the field effect is the arrow
\* effect of exactly the effects completed at its level between the
\* matching enterArrowEffect and it, the outermost one included.
C33_ArrowComponents ==
    /\ Len(effectStack) = OpenArrows(events)
    /\ \A k \in 1..Len(effectStack) :
           effectStack[k] = CompletedAtLevel(events, OpenEnter(events, k), Len(events) + 1)
    /\ (events # <<>> /\ Last(events).kind = "exitArrowEffect")
       => effect = <<[kind |-> "arrow",
                      effects |-> CompletedAtLevel(events, MatchingEnter(events, Len(events)),
                                                   Len(events))]>>

\* The outermost arrow effect has been exited; it has several components
\* and one of them is an arrow effect with a component of its own.
C33_Witness ==
    /\ events # <<>>
    /\ Last(events).kind = "exitArrowEffect"
    /\ OpenArrows(events) = 0
    /\ effect # <<>>
    /\ Len(effect[1].effects) >= 2
    /\ \E i \in 1..Len(effect[1].effects) :
           /\ effect[1].effects[i].kind = "arrow"
           /\ effect[1].effects[i].effects # <<>>

====
